---- MODULE Spec2Model ----
(***************************************************************************)
(* Multi-platform publish orchestrator of CreatorOS-backend:               *)
(* controllers/postController.js (publishPost, autoPublishScheduledPosts,  *)
(* createPost), with the token managers of controllers/snapchatController  *)
(* and the Instagram controller, and the plan limits of models/User.js.    *)
(*                                                                         *)
(* The model clock counts seconds.  Every request handler is one action:   *)
(* the handlers of one Node process run one after the other between their  *)
(* awaits, and this specification takes each of them as a whole.           *)
(***************************************************************************)
EXTENDS Integers, Sequences, FiniteSets, TLC

VARIABLES posts, user, now, ticks, last, procs, poll

vars == <<posts, user, now, ticks, last, procs, poll>>

(***************************************************************************)
(* Bounds of the model                                                     *)
(***************************************************************************)
MaxTicks == 1

(***************************************************************************)
(* Values                                                                  *)
(***************************************************************************)
Null == "null"
NoDate == 0 - 1
NoToken == 0 - 1
InitToken == 0 - 2
PostIds == {1}

Platforms == {"snapchat", "instagram", "youtube", "snapchat_instagram",
              "snapchat_youtube", "instagram_youtube", "all"}
MediaTypes == {"image", "video", "none"}

NoError == [message |-> Null, code |-> Null, timestamp |-> NoDate]

\* Post.create({...}) of createPost with the schema defaults of models/Post.js
NewPost(mediaUrl, mediaType, platform, scheduledFor) ==
  [exists |-> TRUE,
   user |-> "u1",
   mediaUrl |-> mediaUrl,
   mediaType |-> mediaType,
   platform |-> platform,
   status |-> IF scheduledFor # NoDate THEN "scheduled" ELSE "draft",
   scheduledFor |-> scheduledFor,
   publishedAt |-> NoDate,
   snapchatPostId |-> Null,
   instagramPostId |-> Null,
   youtubeVideoId |-> Null,
   error |-> NoError]

\* a slot of the posts collection that holds no document yet
AbsentPost ==
  [exists |-> FALSE,
   user |-> Null,
   mediaUrl |-> Null,
   mediaType |-> "none",
   platform |-> "snapchat",
   status |-> "draft",
   scheduledFor |-> NoDate,
   publishedAt |-> NoDate,
   snapchatPostId |-> Null,
   instagramPostId |-> Null,
   youtubeVideoId |-> Null,
   error |-> NoError]

(***************************************************************************)
(* models/User.js                                                          *)
(***************************************************************************)
Unlimited == 0 - 1
FreePostsPerMonth == 10
ProPostsPerMonth == 100

getPlanLimits(u) ==
  CASE u.plan = "free" -> [postsPerMonth |-> FreePostsPerMonth]
    [] u.plan = "pro" -> [postsPerMonth |-> ProPostsPerMonth]
    [] u.plan = "business" -> [postsPerMonth |-> Unlimited]
    [] OTHER -> [postsPerMonth |-> FreePostsPerMonth]

(***************************************************************************)
(* Token lifetimes, in seconds                                             *)
(***************************************************************************)
SevenDays == 7 * 24 * 60 * 60
InstagramDefaultExpiresIn == 5184000
YouTubeDefaultExpiresIn == 3600

Disconnected ==
  [isConnected |-> FALSE, accessToken |-> NoToken, refreshToken |-> NoToken,
   expiresAt |-> NoDate]

Connected(refreshToken, expiresAt) ==
  [isConnected |-> TRUE, accessToken |-> InitToken,
   refreshToken |-> refreshToken, expiresAt |-> expiresAt]

(***************************************************************************)
(* Answers of the platforms (the inputs of the handlers)                   *)
(***************************************************************************)
\* snapchatService.refreshAccessToken: it throws, or returns the tokens of
\* the response; refresh_token is NoToken when the response carries none
SnapchatRefreshResponses ==
  {[ok |-> FALSE, rotated |-> FALSE, expiresIn |-> 0],
   [ok |-> TRUE, rotated |-> TRUE, expiresIn |-> 3600]}

\* instagramService.refreshAccessToken: expires_in 0 stands for a response
\* without the field
InstagramRefreshResponses ==
  {[ok |-> FALSE, expires_in |-> 0], [ok |-> TRUE, expires_in |-> 0]}

\* youtubeService.refreshAccessToken returns the credentials of the OAuth
\* client, which carry no expires_in (0 stands for the missing field)
YouTubeRefreshResponses ==
  {[ok |-> FALSE, rotated |-> FALSE, expires_in |-> 0],
   [ok |-> TRUE, rotated |-> FALSE, expires_in |-> 0]}

NoRefresh == [ok |-> FALSE, rotated |-> FALSE, expiresIn |-> 0, expires_in |-> 0]

\* snapchatPublicProfileService.postToPublicProfile: throws, or returns the
\* response body, whose id is under data.id, under id, or nowhere
SnapchatResponses ==
  {[ok |-> FALSE, data_id |-> Null, id |-> Null],
   [ok |-> TRUE, data_id |-> "sc-data-id", id |-> Null]}

\* instagramService.uploadAndPublish: throws, or returns {postId, ...}
InstagramResponses ==
  {[ok |-> FALSE, postId |-> Null],
   [ok |-> TRUE, postId |-> Null],
   [ok |-> TRUE, postId |-> "ig-post-id"]}

\* youtubeService.uploadVideo: throws, or returns {videoId, ...}
YouTubeResponses ==
  {[ok |-> FALSE, videoId |-> Null], [ok |-> TRUE, videoId |-> "yt-video-id"]}

NoCall == [ok |-> FALSE]

(***************************************************************************)
(* Token managers                                                          *)
(***************************************************************************)
Call(platform, kind, account, t) ==
  [platform |-> platform, kind |-> kind, token |-> account.accessToken,
   expiresAt |-> account.expiresAt, at |-> t]

Thrown(u, message) ==
  [threw |-> TRUE, message |-> message, user |-> u, calls |-> <<>>]

\* does ensureValidToken of snapchatController call the refresh endpoint
snapchatNeedsRefresh(u, t) ==
  u.snapchatAccount.isConnected /\ t >= u.snapchatAccount.expiresAt

ensureValidSnapchatToken(u, r, t) ==
  IF ~u.snapchatAccount.isConnected
  THEN Thrown(u, "Snapchat account not connected")
  ELSE IF t >= u.snapchatAccount.expiresAt
  THEN LET call == Call("snapchat", "refresh", u.snapchatAccount, t)
       IN IF ~r.ok
          THEN [threw |-> TRUE,
                message |-> "Failed to refresh Snapchat token. Please reconnect your account.",
                user |-> u, calls |-> <<call>>]
          ELSE [threw |-> FALSE, message |-> Null,
                user |-> [u EXCEPT !.snapchatAccount.accessToken = t,
                                   !.snapchatAccount.refreshToken =
                                      IF r.rotated THEN t ELSE NoToken,
                                   !.snapchatAccount.expiresAt = t + r.expiresIn],
                calls |-> <<call>>]
  ELSE [threw |-> FALSE, message |-> Null, user |-> u, calls |-> <<>>]

instagramNeedsRefresh(u, t) ==
  u.instagramAccount.isConnected /\ u.instagramAccount.expiresAt < t + SevenDays

\* ensureValidInstagramToken refreshing only a token that has expired
ensureValidInstagramToken_onlyWhenExpired(u, r, t) ==
  IF ~u.instagramAccount.isConnected
  THEN Thrown(u, "Instagram account not connected")
  ELSE IF u.instagramAccount.expiresAt <= t
  THEN LET call == Call("instagram", "refresh", u.instagramAccount, t)
           expires_in == IF r.expires_in # 0 THEN r.expires_in
                         ELSE InstagramDefaultExpiresIn
       IN IF ~r.ok
          THEN [threw |-> TRUE, message |-> "Failed to refresh token",
                user |-> u, calls |-> <<call>>]
          ELSE [threw |-> FALSE, message |-> Null,
                user |-> [u EXCEPT !.instagramAccount.accessToken = t,
                                   !.instagramAccount.expiresAt = t + expires_in],
                calls |-> <<call>>]
  ELSE [threw |-> FALSE, message |-> Null, user |-> u, calls |-> <<>>]

ensureValidInstagramToken(u, r, t) ==
  IF ~u.instagramAccount.isConnected
  THEN Thrown(u, "Instagram account not connected")
  ELSE IF u.instagramAccount.expiresAt < t + SevenDays
  THEN LET call == Call("instagram", "refresh", u.instagramAccount, t)
           expires_in == IF r.expires_in # 0 THEN r.expires_in
                         ELSE InstagramDefaultExpiresIn
       IN IF ~r.ok
          THEN [threw |-> TRUE, message |-> "Failed to refresh token",
                user |-> u, calls |-> <<call>>]
          ELSE [threw |-> FALSE, message |-> Null,
                user |-> [u EXCEPT !.instagramAccount.accessToken = t,
                                   !.instagramAccount.expiresAt = t + expires_in],
                calls |-> <<call>>]
  ELSE [threw |-> FALSE, message |-> Null, user |-> u, calls |-> <<>>]

youtubeNeedsRefresh(u, t) ==
  u.youtubeAccount.expiresAt <= t /\ u.youtubeAccount.refreshToken # NoToken

\* the inline refresh of publishPost
refreshYouTubeInline(u, r, t) ==
  IF u.youtubeAccount.expiresAt <= t /\ u.youtubeAccount.refreshToken # NoToken
  THEN LET call == Call("youtube", "refresh", u.youtubeAccount, t)
           expires_in == IF r.expires_in # 0 THEN r.expires_in
                         ELSE YouTubeDefaultExpiresIn
       IN IF ~r.ok
          THEN [threw |-> TRUE, message |-> "Failed to refresh access token",
                user |-> u, calls |-> <<call>>]
          ELSE [threw |-> FALSE, message |-> Null,
                user |-> [u EXCEPT !.youtubeAccount.accessToken = t,
                                   !.youtubeAccount.expiresAt = t + expires_in,
                                   !.youtubeAccount.refreshToken =
                                      IF r.rotated THEN t ELSE @],
                calls |-> <<call>>]
  ELSE [threw |-> FALSE, message |-> Null, user |-> u, calls |-> <<>>]

(***************************************************************************)
(* publishPost of controllers/postController.js                            *)
(***************************************************************************)
publishToSnapchat(platform) ==
  platform \in {"snapchat", "snapchat_instagram", "snapchat_youtube", "all"}

publishToInstagram(platform) ==
  platform \in {"instagram", "snapchat_instagram", "instagram_youtube", "all"}

publishToYouTube(platform) ==
  platform \in {"youtube", "snapchat_youtube", "instagram_youtube", "all"}

Resp(status, success, message) ==
  [status |-> status, success |-> success, message |-> message]

NoResp == Resp(0, FALSE, Null)

\* the monthly limit test of publishPost and of the scheduled sweep
limitReached(u) ==
  getPlanLimits(u).postsPerMonth # Unlimited
  /\ u.postsThisMonth >= getPlanLimits(u).postsPerMonth

\* publishRejection without the test of the post's status
publishRejection_noStatusCheck(post, u) ==
  IF publishToSnapchat(post.platform) /\ ~u.snapchatAccount.isConnected
    THEN Resp(400, FALSE, "Please connect your Snapchat account first")
  ELSE IF publishToInstagram(post.platform) /\ ~u.instagramAccount.isConnected
    THEN Resp(400, FALSE, "Please connect your Instagram account first")
  ELSE IF publishToYouTube(post.platform) /\ ~u.youtubeAccount.isConnected
    THEN Resp(400, FALSE, "Please connect your YouTube account first")
  ELSE IF publishToYouTube(post.platform) /\ post.mediaType # "video"
    THEN Resp(400, FALSE, "YouTube only supports video content. Please upload a video.")
  ELSE IF limitReached(u)
    THEN Resp(403, FALSE, "You have reached your monthly post limit. Please upgrade your plan.")
  ELSE IF post.mediaUrl = Null
    THEN Resp(400, FALSE, "Media (image or video) is required for publishing")
  ELSE NoResp

\* publishRejection with the plan limit tested before the media type
publishRejection_limitBeforeVideo(post, u) ==
  IF post.status = "published"
    THEN Resp(400, FALSE, "Post is already published")
  ELSE IF publishToSnapchat(post.platform) /\ ~u.snapchatAccount.isConnected
    THEN Resp(400, FALSE, "Please connect your Snapchat account first")
  ELSE IF publishToInstagram(post.platform) /\ ~u.instagramAccount.isConnected
    THEN Resp(400, FALSE, "Please connect your Instagram account first")
  ELSE IF publishToYouTube(post.platform) /\ ~u.youtubeAccount.isConnected
    THEN Resp(400, FALSE, "Please connect your YouTube account first")
  ELSE IF limitReached(u)
    THEN Resp(403, FALSE, "You have reached your monthly post limit. Please upgrade your plan.")
  ELSE IF publishToYouTube(post.platform) /\ post.mediaType # "video"
    THEN Resp(400, FALSE, "YouTube only supports video content. Please upload a video.")
  ELSE IF post.mediaUrl = Null
    THEN Resp(400, FALSE, "Media (image or video) is required for publishing")
  ELSE NoResp

\* the early returns of publishPost before the first platform is tried:
\* the rejection sent, or NoResp when the publish goes on
publishRejection(post, u) ==
  IF post.status = "published"
    THEN Resp(400, FALSE, "Post is already published")
  ELSE IF publishToSnapchat(post.platform) /\ ~u.snapchatAccount.isConnected
    THEN Resp(400, FALSE, "Please connect your Snapchat account first")
  ELSE IF publishToInstagram(post.platform) /\ ~u.instagramAccount.isConnected
    THEN Resp(400, FALSE, "Please connect your Instagram account first")
  ELSE IF publishToYouTube(post.platform) /\ ~u.youtubeAccount.isConnected
    THEN Resp(400, FALSE, "Please connect your YouTube account first")
  ELSE IF publishToYouTube(post.platform) /\ post.mediaType # "video"
    THEN Resp(400, FALSE, "YouTube only supports video content. Please upload a video.")
  ELSE IF limitReached(u)
    THEN Resp(403, FALSE, "You have reached your monthly post limit. Please upgrade your plan.")
  ELSE IF post.mediaUrl = Null
    THEN Resp(400, FALSE, "Media (image or video) is required for publishing")
  ELSE NoResp

\* the id publishPost takes from the answer of Snapchat
snapPostId(snapResult) ==
  IF snapResult.data_id # Null THEN snapResult.data_id
  ELSE IF snapResult.id # Null THEN snapResult.id
  ELSE "published"

PostError(message, code, t) ==
  [message |-> message, code |-> code, timestamp |-> t]

Attempt(id, platform) == [post |-> id, platform |-> platform]

\* the state of one publishPost call between its platform blocks
StartCtx(id, post, u) ==
  [id |-> id, post |-> post, user |-> u, errors |-> <<>>,
   results |-> [snapchat |-> FALSE, instagram |-> FALSE, youtube |-> FALSE],
   attempted |-> <<>>, succeeded |-> <<>>, calls |-> <<>>, resp |-> NoResp]

\* the Snapchat block: try { token, post, record } catch { collect, or fail
\* the post at once when Instagram is not targeted }
snapchatBlock(ctx, r, a, t) ==
  LET tk == ensureValidSnapchatToken(ctx.user, r, t)
      pub == IF tk.threw THEN <<>>
             ELSE <<Call("snapchat", "publish", tk.user.snapchatAccount, t)>>
      c1 == [ctx EXCEPT !.user = tk.user,
                        !.attempted = Append(@, Attempt(ctx.id, "snapchat")),
                        !.calls = @ \o tk.calls \o pub]
      message == IF tk.threw THEN tk.message
                 ELSE "Failed to post to Public Profile"
      c2 == [c1 EXCEPT !.errors =
                Append(@, [platform |-> "snapchat", error |-> message])]
  IN IF ~tk.threw /\ a.ok
     THEN [c1 EXCEPT !.post.snapchatPostId = snapPostId(a),
                     !.results.snapchat = TRUE,
                     !.succeeded = Append(@, Attempt(ctx.id, "snapchat"))]
     ELSE IF ~publishToInstagram(ctx.post.platform)
     THEN [c2 EXCEPT !.post.status = "failed",
                     !.post.error = PostError(message, "SNAPCHAT_ERROR", t),
                     !.resp = Resp(500, FALSE, "Failed to publish to Snapchat")]
     ELSE c2

\* the Instagram block taking an answer without post id for a success
instagramBlock_acceptsNoId(ctx, r, a, t) ==
  LET tk == ensureValidInstagramToken(ctx.user, r, t)
      pub == IF tk.threw THEN <<>>
             ELSE <<Call("instagram", "publish", tk.user.instagramAccount, t)>>
      c1 == [ctx EXCEPT !.user = tk.user,
                        !.attempted = Append(@, Attempt(ctx.id, "instagram")),
                        !.calls = @ \o tk.calls \o pub]
      message == IF tk.threw THEN tk.message ELSE "Failed to publish media"
      c2 == [c1 EXCEPT !.errors =
                Append(@, [platform |-> "instagram", error |-> message])]
  IN IF ~tk.threw /\ a.ok
     THEN [c1 EXCEPT !.post.instagramPostId = a.postId,
                     !.results.instagram = TRUE,
                     !.succeeded = Append(@, Attempt(ctx.id, "instagram"))]
     ELSE IF ~publishToSnapchat(ctx.post.platform)
     THEN [c2 EXCEPT !.post.status = "failed",
                     !.post.error = PostError(message, "INSTAGRAM_ERROR", t),
                     !.resp = Resp(500, FALSE, "Failed to publish to Instagram")]
     ELSE c2

\* the Instagram block
instagramBlock(ctx, r, a, t) ==
  LET tk == ensureValidInstagramToken(ctx.user, r, t)
      pub == IF tk.threw THEN <<>>
             ELSE <<Call("instagram", "publish", tk.user.instagramAccount, t)>>
      c1 == [ctx EXCEPT !.user = tk.user,
                        !.attempted = Append(@, Attempt(ctx.id, "instagram")),
                        !.calls = @ \o tk.calls \o pub]
      message == IF tk.threw THEN tk.message
                 ELSE IF ~a.ok THEN "Failed to publish media"
                 ELSE "No post ID returned from Instagram"
      c2 == [c1 EXCEPT !.errors =
                Append(@, [platform |-> "instagram", error |-> message])]
  IN IF ~tk.threw /\ a.ok /\ a.postId # Null
     THEN [c1 EXCEPT !.post.instagramPostId = a.postId,
                     !.results.instagram = TRUE,
                     !.succeeded = Append(@, Attempt(ctx.id, "instagram"))]
     ELSE IF ~publishToSnapchat(ctx.post.platform)
     THEN [c2 EXCEPT !.post.status = "failed",
                     !.post.error = PostError(message, "INSTAGRAM_ERROR", t),
                     !.resp = Resp(500, FALSE, "Failed to publish to Instagram")]
     ELSE c2

\* the YouTube block without the early return of a YouTube-only post
youtubeBlock_noEarlyReturn(ctx, r, a, t) ==
  LET tk == refreshYouTubeInline(ctx.user, r, t)
      pub == IF tk.threw THEN <<>>
             ELSE <<Call("youtube", "publish", tk.user.youtubeAccount, t)>>
      c1 == [ctx EXCEPT !.user = tk.user,
                        !.attempted = Append(@, Attempt(ctx.id, "youtube")),
                        !.calls = @ \o tk.calls \o pub]
      message == IF tk.threw THEN tk.message
                 ELSE "Failed to upload video to YouTube"
  IN IF ~tk.threw /\ a.ok
     THEN [c1 EXCEPT !.post.youtubeVideoId = a.videoId,
                     !.results.youtube = TRUE,
                     !.succeeded = Append(@, Attempt(ctx.id, "youtube"))]
     ELSE [c1 EXCEPT !.errors =
              Append(@, [platform |-> "youtube", error |-> message])]

\* the YouTube block
youtubeBlock(ctx, r, a, t) ==
  LET tk == refreshYouTubeInline(ctx.user, r, t)
      pub == IF tk.threw THEN <<>>
             ELSE <<Call("youtube", "publish", tk.user.youtubeAccount, t)>>
      c1 == [ctx EXCEPT !.user = tk.user,
                        !.attempted = Append(@, Attempt(ctx.id, "youtube")),
                        !.calls = @ \o tk.calls \o pub]
      message == IF tk.threw THEN tk.message
                 ELSE "Failed to upload video to YouTube"
      c2 == [c1 EXCEPT !.errors =
                Append(@, [platform |-> "youtube", error |-> message])]
  IN IF ~tk.threw /\ a.ok
     THEN [c1 EXCEPT !.post.youtubeVideoId = a.videoId,
                     !.results.youtube = TRUE,
                     !.succeeded = Append(@, Attempt(ctx.id, "youtube"))]
     ELSE IF ~publishToSnapchat(ctx.post.platform)
             /\ ~publishToInstagram(ctx.post.platform)
     THEN [c2 EXCEPT !.post.status = "failed",
                     !.post.error = PostError(message, "YOUTUBE_ERROR", t),
                     !.resp = Resp(500, FALSE, "Failed to publish to YouTube")]
     ELSE c2

\* "Determine final status", the two saves and the response
finalStatus(ctx, t) ==
  LET platform == ctx.post.platform
      snapchatSuccess == ~publishToSnapchat(platform) \/ ctx.results.snapchat
      instagramSuccess == ~publishToInstagram(platform) \/ ctx.results.instagram
      youtubeSuccess == ~publishToYouTube(platform) \/ ctx.results.youtube
      message == IF Len(ctx.errors) > 0
                 THEN "Post published successfully (with some errors)"
                 ELSE "Post published successfully"
      c1 == [ctx EXCEPT !.resp = Resp(200, TRUE, message)]
  IN IF snapchatSuccess /\ instagramSuccess /\ youtubeSuccess
     THEN [c1 EXCEPT !.post.status = "published", !.post.publishedAt = t,
                     !.user.postsThisMonth = @ + 1]
     ELSE IF snapchatSuccess \/ instagramSuccess \/ youtubeSuccess
     THEN [c1 EXCEPT !.post.status = "published", !.post.publishedAt = t,
                     !.user.postsThisMonth = @ + 1]
     ELSE [c1 EXCEPT !.post.status = "failed",
                     !.post.error = PostError("Failed to publish to all platforms",
                                              "ALL_PLATFORMS_FAILED", t)]

\* the answers one publishPost call consumes
PublishInputs(post, u, t) ==
  LET go == publishRejection(post, u) = NoResp
      pS == go /\ publishToSnapchat(post.platform)
      pI == go /\ publishToInstagram(post.platform)
      pY == go /\ publishToYouTube(post.platform)
  IN [snapRefresh : IF pS /\ snapchatNeedsRefresh(u, t)
                    THEN SnapchatRefreshResponses ELSE {NoRefresh},
      snap : IF pS THEN SnapchatResponses ELSE {NoCall},
      instaRefresh : IF pI /\ instagramNeedsRefresh(u, t)
                     THEN InstagramRefreshResponses ELSE {NoRefresh},
      insta : IF pI THEN InstagramResponses ELSE {NoCall},
      ytRefresh : IF pY /\ youtubeNeedsRefresh(u, t)
                  THEN YouTubeRefreshResponses ELSE {NoRefresh},
      yt : IF pY THEN YouTubeResponses ELSE {NoCall}]

\* publishPost recording a rejection on the post, as the sweep's catch does
publishPostRun_rejectionPersisted(id, post, u, in, t) ==
  LET rejection == publishRejection(post, u)
      c0 == StartCtx(id, post, u)
      c1 == IF publishToSnapchat(post.platform)
            THEN snapchatBlock(c0, in.snapRefresh, in.snap, t) ELSE c0
      c2 == IF c1.resp # NoResp THEN c1
            ELSE IF publishToInstagram(post.platform)
            THEN instagramBlock(c1, in.instaRefresh, in.insta, t) ELSE c1
      c3 == IF c2.resp # NoResp THEN c2
            ELSE IF publishToYouTube(post.platform)
            THEN youtubeBlock(c2, in.ytRefresh, in.yt, t) ELSE c2
  IN IF rejection # NoResp
     THEN [c0 EXCEPT !.resp = rejection,
                     !.post.status = "failed",
                     !.post.error = PostError(rejection.message, "PUBLISH_ERROR", t)]
     ELSE IF c3.resp # NoResp THEN c3
     ELSE finalStatus(c3, t)

\* one publishPost call on a post the caller owns, from the status check to
\* the response
publishPostRun(id, post, u, in, t) ==
  LET rejection == publishRejection(post, u)
      c0 == StartCtx(id, post, u)
      c1 == IF publishToSnapchat(post.platform)
            THEN snapchatBlock(c0, in.snapRefresh, in.snap, t) ELSE c0
      c2 == IF c1.resp # NoResp THEN c1
            ELSE IF publishToInstagram(post.platform)
            THEN instagramBlock(c1, in.instaRefresh, in.insta, t) ELSE c1
      c3 == IF c2.resp # NoResp THEN c2
            ELSE IF publishToYouTube(post.platform)
            THEN youtubeBlock(c2, in.ytRefresh, in.yt, t) ELSE c2
  IN IF rejection # NoResp THEN [c0 EXCEPT !.resp = rejection]
     ELSE IF c3.resp # NoResp THEN c3
     ELSE finalStatus(c3, t)

(***************************************************************************)
(* autoPublishScheduledPosts of controllers/postController.js              *)
(***************************************************************************)
\* the selection of the sweep without the test of the date
isDue_ignoresSchedule(post, t) ==
  post.exists /\ post.status = "scheduled"

\* Post.find({status: 'scheduled', scheduledFor: {$lte: now}})
isDue(post, t) ==
  post.exists /\ post.status = "scheduled" /\ post.scheduledFor <= t

\* the selected posts, in the order of the collection
RECURSIVE SeqOf(_)
SeqOf(ids) ==
  IF ids = {} THEN <<>>
  ELSE LET id == CHOOSE i \in ids : \A j \in ids : i <= j
       IN <<id>> \o SeqOf(ids \ {id})

scheduledPosts(ps, t) == SeqOf({id \in DOMAIN ps : isDue(ps[id], t)})

\* the platforms the sweep derives from the selector
sweepToSnapchat(platform) == platform = "snapchat" \/ platform = "both"

sweepToInstagram(platform) == platform = "instagram" \/ platform = "both"

\* the checks that throw before the sweep tries a platform: the message
\* thrown, or Null
sweepRejection(post, u) ==
  IF sweepToSnapchat(post.platform) /\ ~u.snapchatAccount.isConnected
    THEN "Snapchat account not connected"
  ELSE IF sweepToInstagram(post.platform) /\ ~u.instagramAccount.isConnected
    THEN "Instagram account not connected"
  ELSE IF limitReached(u)
    THEN "Monthly post limit reached"
  ELSE IF post.mediaUrl = Null
    THEN "Media required for publishing"
  ELSE Null

NoSummary == [total |-> 0, published |-> 0, failed |-> 0, errors |-> <<>>]

\* the state of the sweep between two posts
StartSweep(ps, u) ==
  [posts |-> ps, user |-> u, attempted |-> <<>>, succeeded |-> <<>>,
   calls |-> <<>>, summary |-> NoSummary]

\* the catch of the loop body: count, list, mark the post failed, save
sweepCatch(sw, id, message, t) ==
  [sw EXCEPT !.summary.failed = @ + 1,
             !.summary.errors = Append(@, [postId |-> id, error |-> message]),
             !.posts[id].status = "failed",
             !.posts[id].error = PostError(message, "SCHEDULER_ERROR", t)]

\* one pass of the loop body, for the post id
sweepPost(sw, id, in, t) ==
  LET post == sw.posts[id]
      pS == sweepToSnapchat(post.platform)
      pI == sweepToInstagram(post.platform)
      rejection == sweepRejection(post, sw.user)
      \* Snapchat
      stk == ensureValidSnapchatToken(sw.user, in.snapRefresh, t)
      sOk == pS /\ ~stk.threw /\ in.snap.ok
      sMsg == IF stk.threw THEN stk.message ELSE "Failed to post to Public Profile"
      sThrow == pS /\ ~sOk /\ ~pI
      u1 == IF pS THEN stk.user ELSE sw.user
      calls1 == IF ~pS THEN <<>>
                ELSE stk.calls \o
                     (IF stk.threw THEN <<>>
                      ELSE <<Call("snapchat", "publish", u1.snapchatAccount, t)>>)
      \* Instagram
      itk == ensureValidInstagramToken(u1, in.instaRefresh, t)
      iOk == pI /\ ~itk.threw /\ in.insta.ok /\ in.insta.postId # Null
      iMsg == IF itk.threw THEN itk.message
              ELSE IF ~in.insta.ok THEN "Failed to publish media"
              ELSE "No post ID returned from Instagram"
      iThrow == pI /\ ~iOk /\ ~pS
      u2 == IF pI THEN itk.user ELSE u1
      calls2 == IF ~pI THEN <<>>
                ELSE itk.calls \o
                     (IF itk.threw THEN <<>>
                      ELSE <<Call("instagram", "publish", u2.instagramAccount, t)>>)
      attempts == (IF pS THEN <<Attempt(id, "snapchat")>> ELSE <<>>)
                  \o (IF pI /\ ~sThrow THEN <<Attempt(id, "instagram")>> ELSE <<>>)
      snapchatSuccess == ~pS \/ sOk
      instagramSuccess == ~pI \/ iOk
      tried == [sw EXCEPT !.user = IF sThrow THEN u1 ELSE u2,
                          !.attempted = @ \o attempts,
                          !.succeeded = @ \o
                             (IF sOk THEN <<Attempt(id, "snapchat")>> ELSE <<>>)
                             \o (IF iOk /\ ~sThrow
                                 THEN <<Attempt(id, "instagram")>> ELSE <<>>),
                          !.calls = @ \o calls1 \o (IF sThrow THEN <<>> ELSE calls2),
                          !.posts[id].snapchatPostId =
                             IF sOk THEN snapPostId(in.snap) ELSE @,
                          !.posts[id].instagramPostId =
                             IF iOk THEN in.insta.postId ELSE @]
  IN IF post.user = Null
     THEN [sw EXCEPT !.summary.failed = @ + 1]
     ELSE IF rejection # Null THEN sweepCatch(sw, id, rejection, t)
     ELSE IF sThrow THEN sweepCatch(tried, id, sMsg, t)
     ELSE IF iThrow THEN sweepCatch(tried, id, iMsg, t)
     ELSE IF snapchatSuccess \/ instagramSuccess
     THEN [tried EXCEPT !.posts[id].status = "published",
                        !.posts[id].publishedAt = t,
                        !.user.postsThisMonth = @ + 1,
                        !.summary.published = @ + 1]
     ELSE [tried EXCEPT !.posts[id].status = "failed",
                        !.posts[id].error =
                           PostError("Failed to publish to all platforms",
                                     "SCHEDULER_PUBLISH_FAILED", t),
                        !.summary.failed = @ + 1]

\* the loop leaving at the first post that fails
RECURSIVE sweepLoop_abortsOnFailure(_, _, _, _)
sweepLoop_abortsOnFailure(sw, due, ins, t) ==
  IF due = <<>> THEN sw
  ELSE LET next == sweepPost(sw, Head(due), ins[Head(due)], t)
       IN IF next.summary.failed > sw.summary.failed THEN next
          ELSE sweepLoop_abortsOnFailure(next, Tail(due), ins, t)

\* the loop over the selected posts
RECURSIVE sweepLoop(_, _, _, _)
sweepLoop(sw, due, ins, t) ==
  IF due = <<>> THEN sw
  ELSE sweepLoop(sweepPost(sw, Head(due), ins[Head(due)], t), Tail(due), ins, t)

\* the answers the sweep consumes for one selected post
SweepInputs(post, u, t) ==
  LET go == post.user # Null /\ sweepRejection(post, u) = Null
      pS == go /\ sweepToSnapchat(post.platform)
      pI == go /\ sweepToInstagram(post.platform)
  IN [snapRefresh : IF pS /\ snapchatNeedsRefresh(u, t)
                    THEN SnapchatRefreshResponses ELSE {NoRefresh},
      snap : IF pS THEN SnapchatResponses ELSE {NoCall},
      instaRefresh : IF pI /\ instagramNeedsRefresh(u, t)
                     THEN InstagramRefreshResponses ELSE {NoRefresh},
      insta : IF pI THEN InstagramResponses ELSE {NoCall}]

autoPublishScheduledPostsRun(ps, u, ins, t) ==
  LET due == scheduledPosts(ps, t)
      start == [StartSweep(ps, u) EXCEPT !.summary.total = Len(due)]
  IN sweepLoop(start, due, ins, t)

(***************************************************************************)
(* The record of the last request: what it was given, what it answered and *)
(* which platform calls it made                                            *)
(***************************************************************************)
NoInputs ==
  [snapRefresh |-> NoRefresh, snap |-> NoCall, instaRefresh |-> NoRefresh,
   insta |-> NoCall, ytRefresh |-> NoRefresh, yt |-> NoCall]

Last(op, id, prePosts, preUser, in, t, ctx) ==
  [op |-> op, postId |-> id, prePosts |-> prePosts, preUser |-> preUser,
   in |-> in, at |-> t,
   resp |-> ctx.resp, errors |-> ctx.errors, attempted |-> ctx.attempted,
   succeeded |-> ctx.succeeded, calls |-> ctx.calls, summary |-> NoSummary,
   ins |-> <<>>]

\* no publish handler is between two awaits, no upload is in progress
NoProcs == <<>>

NoPoll == [pc |-> "none"]

(***************************************************************************)
(* Initial states: no post yet; the owner's plan, usage and connected      *)
(* accounts are those the connect flows and earlier months can leave       *)
(***************************************************************************)
SnapchatAccounts ==
  {Disconnected, Connected(InitToken, 3600)}

InstagramAccounts ==
  {Disconnected, Connected(NoToken, 3600), Connected(NoToken, InstagramDefaultExpiresIn)}

YouTubeAccounts ==
  {Disconnected, Connected(InitToken, 3600), Connected(NoToken, 3600)}

Usages ==
  {[plan |-> "free", postsThisMonth |-> FreePostsPerMonth - 1],
   [plan |-> "free", postsThisMonth |-> FreePostsPerMonth],
   [plan |-> "business", postsThisMonth |-> FreePostsPerMonth]}

Init ==
  /\ posts = [id \in PostIds |-> AbsentPost]
  /\ \E usage \in Usages, s \in SnapchatAccounts, i \in InstagramAccounts,
        y \in YouTubeAccounts :
       user = [plan |-> usage.plan, postsThisMonth |-> usage.postsThisMonth,
               snapchatAccount |-> s, instagramAccount |-> i,
               youtubeAccount |-> y]
  /\ now = 0
  /\ ticks = 0
  /\ last = [op |-> "none", postId |-> 0, prePosts |-> posts, preUser |-> user,
             in |-> NoInputs, at |-> 0,
             resp |-> NoResp, errors |-> <<>>, attempted |-> <<>>,
             succeeded |-> <<>>, calls |-> <<>>, summary |-> NoSummary,
             ins |-> <<>>]
  /\ procs = NoProcs
  /\ poll = NoPoll

(***************************************************************************)
(* Actions                                                                 *)
(***************************************************************************)
\* the media a create request can carry: mediaUrl || null, mediaType || 'none'
MediaChoices ==
  {[mediaUrl |-> "url", mediaType |-> "image"],
   [mediaUrl |-> "url", mediaType |-> "video"],
   [mediaUrl |-> Null, mediaType |-> "none"]}

\* the scheduledFor a create request can carry: none, now, or an hour ahead
ScheduleChoices(t) == {NoDate, t, t + 3600}

createPost ==
  \E id \in PostIds, m \in MediaChoices, platform \in Platforms,
     scheduledFor \in ScheduleChoices(now) :
    /\ ~posts[id].exists
    /\ \A j \in PostIds : j < id => posts[j].exists
    /\ posts' = [posts EXCEPT ![id] =
                   NewPost(m.mediaUrl, m.mediaType, platform, scheduledFor)]
    /\ last' = Last("createPost", id, posts', user, NoInputs, now,
                    [StartCtx(id, posts'[id], user) EXCEPT
                       !.resp = Resp(201, TRUE, "Post created successfully")])
    /\ UNCHANGED <<user, now, ticks, procs, poll>>

publishPost ==
  \E id \in PostIds :
    IF ~posts[id].exists
    THEN /\ last' = Last("publishPost", id, posts, user, NoInputs, now,
                         [StartCtx(id, posts[id], user) EXCEPT
                            !.resp = Resp(404, FALSE, "Post not found")])
         /\ UNCHANGED <<posts, user, now, ticks, procs, poll>>
    ELSE \E in \in PublishInputs(posts[id], user, now) :
           LET run == publishPostRun(id, posts[id], user, in, now)
           IN /\ posts' = [posts EXCEPT ![id] = run.post]
              /\ user' = run.user
              /\ last' = Last("publishPost", id, posts, user, in, now, run)
              /\ UNCHANGED <<now, ticks, procs, poll>>

autoPublishScheduledPostsOf(ids) ==
  \E authorized \in BOOLEAN :
    IF ~authorized
    THEN /\ last' = [op |-> "autoPublishScheduledPosts", postId |-> 0,
                     prePosts |-> posts, preUser |-> user,
                     in |-> NoInputs, at |-> now,
                     resp |-> Resp(401, FALSE, "Unauthorized"),
                     errors |-> <<>>, attempted |-> <<>>,
                     succeeded |-> <<>>, calls |-> <<>>,
                     summary |-> NoSummary, ins |-> <<>>]
         /\ UNCHANGED <<posts, user, now, ticks, procs, poll>>
    ELSE \E ins \in [ids -> UNION {SweepInputs(posts[id], user, now) : id \in ids}] :
           /\ \A id \in ids : ins[id] \in SweepInputs(posts[id], user, now)
           /\ LET run == autoPublishScheduledPostsRun(posts, user, ins, now)
              IN /\ posts' = run.posts
                 /\ user' = run.user
                 /\ last' = [op |-> "autoPublishScheduledPosts", postId |-> 0,
                             prePosts |-> posts, preUser |-> user,
                             in |-> NoInputs, at |-> now,
                             resp |-> Resp(200, TRUE,
                                      "Scheduled posts batch publish complete"),
                             errors |-> <<>>, attempted |-> run.attempted,
                             succeeded |-> run.succeeded,
                             calls |-> run.calls, summary |-> run.summary,
                             ins |-> ins]
                 /\ UNCHANGED <<now, ticks, procs, poll>>

autoPublishScheduledPosts == autoPublishScheduledPostsOf(PostIds)

\* time passes between two requests
TickSteps == {3600}

Tick ==
  \E d \in TickSteps :
    /\ ticks < MaxTicks
    /\ now' = now + d
    /\ ticks' = ticks + 1
    /\ UNCHANGED <<posts, user, last, procs, poll>>

Next ==
  \/ createPost
  \/ publishPost
  \/ autoPublishScheduledPosts
  \/ Tick

Spec == Init /\ [][Next]_vars

(***************************************************************************)
(* The token managers taken alone: ensureValidToken of snapchatController, *)
(* ensureValidToken of the Instagram controller, the inline refresh of the *)
(* YouTube block of publishPost and getStatus of youtubeController, called *)
(* one after the other on the owner's accounts                             *)
(***************************************************************************)
\* every answer of the refresh endpoints the token managers tell apart
AllSnapchatRefreshResponses ==
  SnapchatRefreshResponses
    \cup {[ok |-> TRUE, rotated |-> FALSE, expiresIn |-> 3600]}

AllYouTubeRefreshResponses ==
  YouTubeRefreshResponses
    \cup {[ok |-> TRUE, rotated |-> TRUE, expires_in |-> 0]}

\* getStatus of youtubeController: what it leaves of the user and what it
\* answers
getStatus(u, r, t) ==
  IF ~u.youtubeAccount.isConnected
  THEN [threw |-> FALSE, message |-> Null, user |-> u, calls |-> <<>>,
        isConnected |-> FALSE]
  ELSE IF u.youtubeAccount.expiresAt <= t /\ u.youtubeAccount.refreshToken # NoToken
  THEN LET call == Call("youtube", "refresh", u.youtubeAccount, t)
           expires_in == IF r.expires_in # 0 THEN r.expires_in
                         ELSE YouTubeDefaultExpiresIn
       IN IF r.ok
          THEN [threw |-> FALSE, message |-> Null,
                user |-> [u EXCEPT !.youtubeAccount.accessToken = t,
                                   !.youtubeAccount.expiresAt = t + expires_in,
                                   !.youtubeAccount.refreshToken =
                                      IF r.rotated THEN t ELSE @],
                calls |-> <<call>>, isConnected |-> TRUE]
          ELSE [threw |-> FALSE,
                message |-> "Token expired. Please reconnect your YouTube account.",
                user |-> [u EXCEPT !.youtubeAccount.isConnected = FALSE],
                calls |-> <<call>>, isConnected |-> FALSE]
  ELSE [threw |-> FALSE, message |-> Null, user |-> u, calls |-> <<>>,
        isConnected |-> TRUE]

\* the record of the last token step
TokenLast(op, preUser, r, t, out) ==
  [op |-> op, preUser |-> preUser, in |-> r, at |-> t, threw |-> out.threw,
   message |-> out.message, calls |-> out.calls]

\* the expiries an Instagram account can be left with: a second ahead, and
\* around the seven days of the lookahead
InstagramExpiries == {1, SevenDays - 1, SevenDays}

TokenInit ==
  /\ posts = [id \in PostIds |-> AbsentPost]
  /\ \E s \in SnapchatAccounts, y \in YouTubeAccounts,
        i \in {Disconnected} \cup {Connected(NoToken, e) : e \in InstagramExpiries} :
       user = [plan |-> "free", postsThisMonth |-> 0,
               snapchatAccount |-> s, instagramAccount |-> i,
               youtubeAccount |-> y]
  /\ now = 0
  /\ ticks = 0
  /\ last = [op |-> "none", preUser |-> user, in |-> NoRefresh, at |-> 0,
             threw |-> FALSE, message |-> Null, calls |-> <<>>]
  /\ procs = NoProcs
  /\ poll = NoPoll

snapchatTokenStep ==
  \E r \in IF snapchatNeedsRefresh(user, now)
            THEN AllSnapchatRefreshResponses ELSE {NoRefresh} :
    LET out == ensureValidSnapchatToken(user, r, now)
    IN /\ user' = out.user
       /\ last' = TokenLast("ensureValidSnapchatToken", user, r, now, out)
       /\ UNCHANGED <<posts, now, ticks, procs, poll>>

instagramTokenStep ==
  \E r \in IF instagramNeedsRefresh(user, now)
            THEN InstagramRefreshResponses ELSE {NoRefresh} :
    LET out == ensureValidInstagramToken(user, r, now)
    IN /\ user' = out.user
       /\ last' = TokenLast("ensureValidInstagramToken", user, r, now, out)
       /\ UNCHANGED <<posts, now, ticks, procs, poll>>

\* the token step of the YouTube block, which publishPost enters only for
\* a connected account
youtubeTokenStep ==
  \E r \in IF youtubeNeedsRefresh(user, now)
            THEN AllYouTubeRefreshResponses ELSE {NoRefresh} :
    LET out == refreshYouTubeInline(user, r, now)
    IN /\ user.youtubeAccount.isConnected
       /\ user' = out.user
       /\ last' = TokenLast("refreshYouTubeInline", user, r, now, out)
       /\ UNCHANGED <<posts, now, ticks, procs, poll>>

getStatusStep ==
  \E r \in IF user.youtubeAccount.isConnected /\ youtubeNeedsRefresh(user, now)
            THEN AllYouTubeRefreshResponses ELSE {NoRefresh} :
    LET out == getStatus(user, r, now)
    IN /\ user' = out.user
       /\ last' = TokenLast("getStatus", user, r, now, out)
       /\ UNCHANGED <<posts, now, ticks, procs, poll>>

TokenNext ==
  \/ snapchatTokenStep
  \/ instagramTokenStep
  \/ youtubeTokenStep
  \/ getStatusStep
  \/ Tick

TokenSpec == TokenInit /\ [][TokenNext]_vars

(***************************************************************************)
(* Two publishPost calls of the same user in flight at once.  Each handler *)
(* loads its own document of the user (User.findById), then runs the token *)
(* step of the platform on that document: the step assigns the fields of   *)
(* the refresh response to the document and saves it, and the save writes  *)
(* the paths of the document the handler has changed.                      *)
(***************************************************************************)
Procs == {1, 2}

AccountFields == {"isConnected", "accessToken", "refreshToken", "expiresAt"}

\* the owner both calls publish for: every account connected, every token
\* due for a refresh
RaceUser ==
  [plan |-> "business", postsThisMonth |-> 0,
   snapchatAccount |-> Connected(InitToken, 0),
   instagramAccount |-> Connected(NoToken, 3600),
   youtubeAccount |-> Connected(InitToken, 0)]

AccountOf(u, x) ==
  CASE x = "snapchat" -> u.snapchatAccount
    [] x = "instagram" -> u.instagramAccount
    [] x = "youtube" -> u.youtubeAccount

WithAccount(u, x, account) ==
  CASE x = "snapchat" -> [u EXCEPT !.snapchatAccount = account]
    [] x = "instagram" -> [u EXCEPT !.instagramAccount = account]
    [] x = "youtube" -> [u EXCEPT !.youtubeAccount = account]

\* the token step of publishPost for the platform x on the document doc
tokenStep(x, doc, r, t) ==
  CASE x = "snapchat" -> ensureValidSnapchatToken(doc, r, t)
    [] x = "instagram" -> ensureValidInstagramToken(doc, r, t)
    [] x = "youtube" -> refreshYouTubeInline(doc, r, t)

\* the answers the token step of x can get for the document doc
TokenStepInputs(x, doc, t) ==
  CASE x = "snapchat" ->
         IF snapchatNeedsRefresh(doc, t)
         THEN AllSnapchatRefreshResponses ELSE {NoRefresh}
    [] x = "instagram" ->
         IF instagramNeedsRefresh(doc, t)
         THEN InstagramRefreshResponses ELSE {NoRefresh}
    [] x = "youtube" ->
         IF youtubeNeedsRefresh(doc, t)
         THEN AllYouTubeRefreshResponses ELSE {NoRefresh}

\* user.save() of a document loaded as `loaded` and now `doc`: the stored
\* account takes the fields the handler has changed
saveAccount(stored, loaded, doc) ==
  [f \in AccountFields |-> IF doc[f] # loaded[f] THEN doc[f] ELSE stored[f]]

RaceInit ==
  /\ posts = [id \in PostIds |-> AbsentPost]
  /\ user = RaceUser
  /\ now = 0
  /\ ticks = 0
  /\ last = [op |-> "none"]
  /\ \E x \in {"snapchat", "instagram", "youtube"} :
       procs = [p \in Procs |->
                  [pc |-> "start", platform |-> x, loaded |-> RaceUser,
                   doc |-> RaceUser, in |-> NoRefresh]]
  /\ poll = NoPoll

\* const user = await User.findById(req.user._id)
loadUser(p) ==
  /\ procs[p].pc = "start"
  /\ procs' = [procs EXCEPT ![p].pc = "loaded", ![p].loaded = user,
                            ![p].doc = user]
  /\ UNCHANGED <<posts, user, now, ticks, last, poll>>

\* the token step of the handler p, from the test of the expiry to the save
refreshAndSave(p) ==
  LET x == procs[p].platform
      loaded == procs[p].loaded
  IN /\ procs[p].pc = "loaded"
     /\ \E r \in TokenStepInputs(x, loaded, now) :
          LET out == tokenStep(x, loaded, r, now)
              saved == out.user # loaded
          IN /\ procs' = [procs EXCEPT
                            ![p].pc = IF out.threw THEN "failed"
                                      ELSE IF saved THEN "saved" ELSE "valid",
                            ![p].doc = out.user,
                            ![p].in = r]
             /\ user' = IF saved
                        THEN WithAccount(user, x,
                               saveAccount(AccountOf(user, x), AccountOf(loaded, x),
                                           AccountOf(out.user, x)))
                        ELSE user
     /\ UNCHANGED <<posts, now, ticks, last, poll>>

RaceNext ==
  \/ \E p \in Procs : loadUser(p)
  \/ \E p \in Procs : refreshAndSave(p)
  \/ Tick

RaceSpec == RaceInit /\ [][RaceNext]_vars

(***************************************************************************)
(* uploadAndPublish of services/instagramService.js, one step per awaited  *)
(* call: the container, each status check of the video loop, the publish   *)
(***************************************************************************)
maxAttempts == 20

\* the status codes checkContainerStatus can return; EXPIRED stands for
\* every code the loop does not name
ContainerStatuses == {"IN_PROGRESS", "FINISHED", "ERROR", "EXPIRED"}

\* the guard of the loop with one attempt more than the budget
pollContinues_oneMore(statusCode, attempts) ==
  statusCode = "IN_PROGRESS" /\ attempts <= maxAttempts

\* while (statusCode === 'IN_PROGRESS' && attempts < maxAttempts)
pollContinues(statusCode, attempts) ==
  statusCode = "IN_PROGRESS" /\ attempts < maxAttempts

\* the decision after the loop that publishes whatever is not an ERROR
pollOutcome_publishUnlessError(statusCode) ==
  IF statusCode = "ERROR" THEN "Video processing failed"
  ELSE Null

\* the two tests after the loop: the error thrown, or Null to go on
pollOutcome(statusCode) ==
  IF statusCode = "ERROR" THEN "Video processing failed"
  ELSE IF statusCode # "FINISHED" THEN "Video processing timeout"
  ELSE Null

\* an upload that has just been called
StartPoll(mediaType) ==
  [pc |-> "container", mediaType |-> mediaType, statusCode |-> "IN_PROGRESS",
   attempts |-> 0, loopExited |-> FALSE, published |-> FALSE,
   outcome |-> "pending", message |-> Null, postId |-> Null]

PollInit ==
  /\ posts = [id \in PostIds |-> AbsentPost]
  /\ user = RaceUser
  /\ now = 0
  /\ ticks = 0
  /\ last = [op |-> "none"]
  /\ procs = NoProcs
  /\ \E mediaType \in {"VIDEO", "IMAGE"} : poll = StartPoll(mediaType)

\* Step 1: createMediaContainer returns the container id, or throws
createMediaContainer ==
  /\ poll.pc = "container"
  /\ \E ok \in BOOLEAN :
       poll' = IF ~ok
               THEN [poll EXCEPT !.pc = "done", !.outcome = "threw",
                                 !.message = "Failed to create media container"]
               ELSE IF poll.mediaType = "VIDEO"
               THEN [poll EXCEPT !.pc = "polling"]
               ELSE [poll EXCEPT !.pc = "publishing"]
  /\ UNCHANGED <<posts, user, now, ticks, last, procs>>

\* one turn of the loop: wait, check the status, count the attempt
checkContainerStatus ==
  /\ poll.pc = "polling"
  /\ pollContinues(poll.statusCode, poll.attempts)
  /\ \/ \E statusCode \in ContainerStatuses :
          poll' = [poll EXCEPT !.statusCode = statusCode,
                               !.attempts = @ + 1]
     \/ poll' = [poll EXCEPT !.pc = "done", !.outcome = "threw",
                              !.message = "Failed to check container status"]
  /\ UNCHANGED <<posts, user, now, ticks, last, procs>>

\* the loop is left: fail on ERROR, time out on anything but FINISHED
leaveLoop ==
  /\ poll.pc = "polling"
  /\ ~pollContinues(poll.statusCode, poll.attempts)
  /\ poll' = IF pollOutcome(poll.statusCode) # Null
             THEN [poll EXCEPT !.pc = "done", !.loopExited = TRUE,
                               !.outcome = "threw",
                               !.message = pollOutcome(poll.statusCode)]
             ELSE [poll EXCEPT !.pc = "publishing", !.loopExited = TRUE]
  /\ UNCHANGED <<posts, user, now, ticks, last, procs>>

\* Step 3: publishMedia throws, or returns the id of the response, if any
publishMedia ==
  /\ poll.pc = "publishing"
  /\ \E a \in InstagramResponses :
       poll' = IF ~a.ok
               THEN [poll EXCEPT !.pc = "done", !.published = TRUE,
                                 !.outcome = "threw",
                                 !.message = "Failed to publish media"]
               ELSE [poll EXCEPT !.pc = "done", !.published = TRUE,
                                 !.outcome = "returned", !.postId = a.postId]
  /\ UNCHANGED <<posts, user, now, ticks, last, procs>>

PollNext ==
  \/ createMediaContainer
  \/ checkContainerStatus
  \/ leaveLoop
  \/ publishMedia

PollSpec == PollInit /\ [][PollNext]_vars

\* every awaited call of the upload is answered, or fails, in the end
PollLive == PollSpec /\ WF_vars(PollNext)

(***************************************************************************)
(* The scheduled sweep over a batch of posts of one owner, some of them    *)
(* left without owner (their user reference populates to null)             *)
(***************************************************************************)
BatchIds == {1, 2, 3}

\* the posts of the batch: due for Snapchat or Instagram, with or without
\* owner, due without media, scheduled an hour ahead, or a draft
BatchPosts ==
  {NewPost("url", "image", platform, 0) : platform \in {"snapchat", "instagram"}}
    \cup {[NewPost("url", "image", "snapchat", 0) EXCEPT !.user = Null]}
    \cup {NewPost(Null, "none", "snapchat", 0)}
    \cup {NewPost("url", "image", "instagram", 3600)}
    \cup {NewPost("url", "image", "snapchat", NoDate)}

\* the owner: Snapchat and Instagram connected, one post or many left in the
\* month
BatchUsers ==
  {[plan |-> "free", postsThisMonth |-> n,
    snapchatAccount |-> Connected(InitToken, 3600),
    instagramAccount |-> Connected(NoToken, InstagramDefaultExpiresIn),
    youtubeAccount |-> Disconnected] : n \in {0, FreePostsPerMonth - 1}}

SweepInit ==
  /\ posts \in [BatchIds -> BatchPosts]
  /\ user \in BatchUsers
  /\ now = 0
  /\ ticks = 0
  /\ last = [op |-> "none", postId |-> 0, prePosts |-> posts, preUser |-> user,
             in |-> NoInputs, at |-> 0,
             resp |-> NoResp, errors |-> <<>>, attempted |-> <<>>,
             succeeded |-> <<>>, calls |-> <<>>, summary |-> NoSummary,
             ins |-> <<>>]
  /\ procs = NoProcs
  /\ poll = NoPoll

\* the cron job calls the sweep again and again at the same hour
SweepNext == autoPublishScheduledPostsOf(BatchIds)

SweepSpec == SweepInit /\ [][SweepNext]_vars

(***************************************************************************)
(* The other handlers of a post: getPost, updatePost, deletePost,          *)
(* syncInstagramAnalytics and the batch autoSyncAllAnalytics, with the     *)
(* helper syncPostAnalytics.  Here a post also carries its title, its      *)
(* content and its analytics block.                                        *)
(***************************************************************************)
\* the freshness windows, in seconds
ThirtyMinutes == 30 * 60
OneHour == 60 * 60

\* analytics.instagram with the defaults of the schema
ZeroMetrics ==
  [likes |-> 0, comments |-> 0, saves |-> 0, reach |-> 0, impressions |-> 0,
   engagement |-> 0]

\* the analytics block of a post that was never synced: lastSynced is unset
NeverSynced == [instagram |-> ZeroMetrics, lastSynced |-> NoDate]

\* a post document with the fields the publish handlers do not read
Detailed(post, title, content, analytics) ==
  [f \in DOMAIN post \cup {"title", "content", "analytics"} |->
     CASE f = "title" -> title
       [] f = "content" -> content
       [] f = "analytics" -> analytics
       [] OTHER -> post[f]]

\* instagramService.getPostInsights: throws, or returns the counters
InsightsResponses ==
  {[ok |-> FALSE, metrics |-> ZeroMetrics],
   [ok |-> TRUE,
    metrics |-> [likes |-> 5, comments |-> 1, saves |-> 2, reach |-> 9,
                 impressions |-> 12, engagement |-> 8]]}

NoInsights == [ok |-> FALSE, metrics |-> ZeroMetrics]

\* syncPostAnalytics without the test of the post's Instagram id
syncPostAnalytics_noIdCheck(post, u, r, a, t) ==
  IF ~u.instagramAccount.isConnected
  THEN [threw |-> TRUE, message |-> "Instagram account not connected",
        post |-> post, user |-> u, calls |-> <<>>]
  ELSE LET tk == ensureValidInstagramToken(u, r, t)
           fetch == Call("instagram", "insights", tk.user.instagramAccount, t)
       IN IF tk.threw
          THEN [threw |-> TRUE, message |-> tk.message, post |-> post,
                user |-> tk.user, calls |-> tk.calls]
          ELSE IF ~a.ok
          THEN [threw |-> TRUE, message |-> "Failed to get post insights",
                post |-> post, user |-> tk.user,
                calls |-> tk.calls \o <<fetch>>]
          ELSE [threw |-> FALSE, message |-> Null,
                post |-> [post EXCEPT !.analytics.instagram = a.metrics,
                                      !.analytics.lastSynced = t],
                user |-> tk.user, calls |-> tk.calls \o <<fetch>>]

\* syncPostAnalytics(post, user): the two tests, the token, the fetch, the
\* assignment of the counters and of lastSynced, the save
syncPostAnalytics(post, u, r, a, t) ==
  IF post.instagramPostId = Null
  THEN [threw |-> TRUE, message |-> "Post not published to Instagram",
        post |-> post, user |-> u, calls |-> <<>>]
  ELSE IF ~u.instagramAccount.isConnected
  THEN [threw |-> TRUE, message |-> "Instagram account not connected",
        post |-> post, user |-> u, calls |-> <<>>]
  ELSE LET tk == ensureValidInstagramToken(u, r, t)
           fetch == Call("instagram", "insights", tk.user.instagramAccount, t)
       IN IF tk.threw
          THEN [threw |-> TRUE, message |-> tk.message, post |-> post,
                user |-> tk.user, calls |-> tk.calls]
          ELSE IF ~a.ok
          THEN [threw |-> TRUE, message |-> "Failed to get post insights",
                post |-> post, user |-> tk.user,
                calls |-> tk.calls \o <<fetch>>]
          ELSE [threw |-> FALSE, message |-> Null,
                post |-> [post EXCEPT !.analytics.instagram = a.metrics,
                                      !.analytics.lastSynced = t],
                user |-> tk.user, calls |-> tk.calls \o <<fetch>>]

\* the answers one call of syncPostAnalytics consumes
SyncInputs(post, u, t) ==
  LET go == post.instagramPostId # Null /\ u.instagramAccount.isConnected
  IN [instaRefresh : IF go /\ instagramNeedsRefresh(u, t)
                     THEN InstagramRefreshResponses ELSE {NoRefresh},
      insights : IF go THEN InsightsResponses ELSE {NoInsights}]

NoSync == [instaRefresh |-> NoRefresh, insights |-> NoInsights]

\* shouldAutoSync with a window of thirty seconds
shouldAutoSync_shortWindow(post, t) ==
  /\ post.status = "published"
  /\ post.instagramPostId # Null
  /\ (post.analytics.lastSynced = NoDate
      \/ t - post.analytics.lastSynced > 30)

\* shouldAutoSync of getPost
shouldAutoSync(post, t) ==
  /\ post.status = "published"
  /\ post.instagramPostId # Null
  /\ (post.analytics.lastSynced = NoDate
      \/ t - post.analytics.lastSynced > ThirtyMinutes)

\* getPost on a post of the caller: the sync when it is due, its failure
\* swallowed, and the answer
getPostRun(post, u, in, t) ==
  LET sync == syncPostAnalytics(post, u, in.instaRefresh, in.insights, t)
  IN IF shouldAutoSync(post, t)
     THEN [resp |-> Resp(200, TRUE, Null), post |-> sync.post,
           user |-> sync.user, calls |-> sync.calls, errors |-> <<>>]
     ELSE [resp |-> Resp(200, TRUE, Null), post |-> post, user |-> u,
           calls |-> <<>>, errors |-> <<>>]

\* syncInstagramAnalytics (the manual trigger) on a post of the caller
syncInstagramAnalyticsRun(post, u, in, t) ==
  LET sync == syncPostAnalytics(post, u, in.instaRefresh, in.insights, t)
  IN IF sync.threw
     THEN [resp |-> Resp(500, FALSE, "Error syncing analytics"),
           post |-> sync.post, user |-> sync.user, calls |-> sync.calls,
           errors |-> <<[platform |-> "instagram", error |-> sync.message]>>]
     ELSE [resp |-> Resp(200, TRUE, "Analytics synced successfully"),
           post |-> sync.post, user |-> sync.user, calls |-> sync.calls,
           errors |-> <<>>]

\* the selection of autoSyncAllAnalytics: published, with an Instagram id,
\* last synced before one hour ago or never
needsSync(post, t) ==
  /\ post.exists
  /\ post.status = "published"
  /\ post.instagramPostId # Null
  /\ (post.analytics.lastSynced = NoDate
      \/ post.analytics.lastSynced < t - OneHour)

NoSyncSummary == [total |-> 0, synced |-> 0, failed |-> 0, errors |-> <<>>]

\* the state of the batch sync between two posts
StartSync(ps, u) ==
  [posts |-> ps, user |-> u, calls |-> <<>>, summary |-> NoSyncSummary]

\* one pass of the loop of autoSyncAllAnalytics
syncOne(sw, id, in, t) ==
  LET post == sw.posts[id]
      sync == syncPostAnalytics(post, sw.user, in.instaRefresh, in.insights, t)
  IN IF post.user = Null
     THEN [sw EXCEPT !.summary.failed = @ + 1]
     ELSE IF sync.threw
     THEN [sw EXCEPT !.user = sync.user,
                     !.calls = @ \o sync.calls,
                     !.summary.failed = @ + 1,
                     !.summary.errors =
                        Append(@, [postId |-> id, error |-> sync.message])]
     ELSE [sw EXCEPT !.posts[id] = sync.post,
                     !.user = sync.user,
                     !.calls = @ \o sync.calls,
                     !.summary.synced = @ + 1]

RECURSIVE syncLoop(_, _, _, _)
syncLoop(sw, due, ins, t) ==
  IF due = <<>> THEN sw
  ELSE syncLoop(syncOne(sw, Head(due), ins[Head(due)], t), Tail(due), ins, t)

\* the batch sync from the selection to the summary
autoSyncAllAnalyticsRun(ps, u, ins, t) ==
  LET due == SeqOf({id \in DOMAIN ps : needsSync(ps[id], t)})
      start == [StartSync(ps, u) EXCEPT !.summary.total = Len(due)]
  IN syncLoop(start, due, ins, t)

\* a field the request body does not carry
Undefined == "undefined"

NoBody ==
  [title |-> Undefined, content |-> Undefined, mediaUrl |-> Undefined,
   mediaType |-> Undefined, platform |-> Undefined, scheduledFor |-> NoDate,
   status |-> Undefined]

\* the bodies of the update requests: a new text, a new media, a schedule,
\* a status
UpdateBodies(t) ==
  {[NoBody EXCEPT !.title = "title-2", !.content = "content-2"],
   [NoBody EXCEPT !.mediaUrl = "url-2", !.mediaType = "image"],
   [NoBody EXCEPT !.scheduledFor = t],
   [NoBody EXCEPT !.status = "published"]}

\* the assignments of updatePost, in their order
applyBody(post, body) ==
  LET p1 == IF body.title # Undefined THEN [post EXCEPT !.title = body.title]
            ELSE post
      p2 == IF body.content # Undefined THEN [p1 EXCEPT !.content = body.content]
            ELSE p1
      p3 == IF body.mediaUrl # Undefined THEN [p2 EXCEPT !.mediaUrl = body.mediaUrl]
            ELSE p2
      p4 == IF body.mediaType # Undefined
            THEN [p3 EXCEPT !.mediaType = body.mediaType] ELSE p3
      p5 == IF body.platform # Undefined
            THEN [p4 EXCEPT !.platform = body.platform] ELSE p4
      p6 == IF body.scheduledFor # NoDate
            THEN [p5 EXCEPT !.scheduledFor = body.scheduledFor,
                            !.status = "scheduled"]
            ELSE p5
  IN IF body.status # Undefined THEN [p6 EXCEPT !.status = body.status] ELSE p6

\* updatePost editing a published post like any other
updatePostRun_editsPublished(post, body) ==
  [resp |-> Resp(200, TRUE, "Post updated successfully"),
   post |-> applyBody(post, body)]

\* updatePost on a post of the caller
updatePostRun(post, body) ==
  IF post.status = "published"
  THEN [resp |-> Resp(400, FALSE, "Cannot edit published posts"), post |-> post]
  ELSE [resp |-> Resp(200, TRUE, "Post updated successfully"),
        post |-> applyBody(post, body)]

\* instagramService.deletePost: throws or returns
DeleteResponses == {[ok |-> FALSE], [ok |-> TRUE]}

\* does deletePost try the deletion on Instagram
deletesOnInstagram(post, u) ==
  post.instagramPostId # Null /\ u.instagramAccount.isConnected

\* deletePost giving up when the deletion on Instagram fails
deletePostRun_stopsOnFailure(post, u, a, t) ==
  LET tried == deletesOnInstagram(post, u)
      call == Call("instagram", "delete", u.instagramAccount, t)
  IN IF tried /\ ~a.ok
     THEN [resp |-> Resp(500, FALSE, "Error deleting post"),
           removed |-> FALSE,
           details |-> [database |-> FALSE, instagram |-> "failed",
                        snapchat |-> Null],
           calls |-> <<call>>]
     ELSE [resp |-> Resp(200, TRUE, "Post deleted successfully"),
           removed |-> TRUE,
           details |-> [database |-> TRUE,
                        instagram |-> IF tried THEN "deleted" ELSE Null,
                        snapchat |-> IF post.snapchatPostId # Null
                                     THEN "not_supported" ELSE Null],
           calls |-> IF tried THEN <<call>> ELSE <<>>]

\* deletePost on a post of the caller: the deletion on Instagram inside its
\* own try/catch, the note for Snapchat, post.deleteOne() and the answer
deletePostRun(post, u, a, t) ==
  LET tried == deletesOnInstagram(post, u)
      call == Call("instagram", "delete", u.instagramAccount, t)
  IN [resp |-> Resp(200, TRUE, "Post deleted successfully"),
      removed |-> TRUE,
      details |-> [database |-> TRUE,
                   instagram |-> IF ~tried THEN Null
                                 ELSE IF a.ok THEN "deleted" ELSE "failed",
                   snapchat |-> IF post.snapchatPostId # Null
                                THEN "not_supported" ELSE Null],
      calls |-> IF tried THEN <<call>> ELSE <<>>]

\* the record of a request of this section, with the fields of Last
LifeLast(op, id, in, resp, errors, calls) ==
  [op |-> op, postId |-> id, prePosts |-> posts, preUser |-> user,
   in |-> in, at |-> now, resp |-> resp, errors |-> errors,
   attempted |-> <<>>, succeeded |-> <<>>, calls |-> calls,
   summary |-> NoSummary, ins |-> <<>>]

\* the hour the requests start at
LifeStart == 2 * OneHour

\* a published post with the given platform ids and analytics
PublishedPost(platform, snapchatPostId, instagramPostId, analytics) ==
  Detailed([NewPost("url", "video", platform, NoDate) EXCEPT
              !.status = "published", !.publishedAt = 0,
              !.snapchatPostId = snapchatPostId,
              !.instagramPostId = instagramPostId],
           "title-1", "content-1", analytics)

\* the posts the requests find: a draft, a post due for the sweep, posts
\* published to Instagram that were never synced or synced two hours, one
\* hour or thirty minutes ago, and a post published to Snapchat only
LifePosts ==
  {Detailed(NewPost("url", "video", "instagram", NoDate),
            "title-1", "content-1", NeverSynced),
   Detailed(NewPost("url", "video", "snapchat_instagram", 0),
            "title-1", "content-1", NeverSynced)}
    \cup {PublishedPost("instagram", Null, "ig-post-id",
                        [instagram |-> ZeroMetrics, lastSynced |-> at]) :
            at \in {NoDate, 0, OneHour, OneHour + ThirtyMinutes}}
    \cup {PublishedPost("snapchat", "sc-data-id", Null, NeverSynced)}

\* the owner: every account connected, Instagram with a token that is good
\* for sixty days or for one hour more, or Instagram disconnected
LifeUsers ==
  {[plan |-> "business", postsThisMonth |-> 0,
    snapchatAccount |-> Connected(InitToken, LifeStart + SevenDays),
    instagramAccount |-> i,
    youtubeAccount |-> Connected(InitToken, LifeStart + SevenDays)] :
     i \in {Disconnected,
            Connected(NoToken, LifeStart + OneHour),
            Connected(NoToken, LifeStart + InstagramDefaultExpiresIn)}}

LifeInit ==
  /\ posts \in [PostIds -> LifePosts]
  /\ user \in LifeUsers
  /\ now = LifeStart
  /\ ticks = 0
  /\ last = [op |-> "none", postId |-> 0, prePosts |-> posts, preUser |-> user,
             in |-> NoInputs, at |-> now,
             resp |-> NoResp, errors |-> <<>>, attempted |-> <<>>,
             succeeded |-> <<>>, calls |-> <<>>, summary |-> NoSummary,
             ins |-> <<>>]
  /\ procs = NoProcs
  /\ poll = NoPoll

\* a request for a post that is not there any more
notFound(op, id) ==
  /\ last' = LifeLast(op, id, NoInputs, Resp(404, FALSE, "Post not found"),
                      <<>>, <<>>)
  /\ UNCHANGED <<posts, user, now, ticks, procs, poll>>

getPost ==
  \E id \in PostIds :
    IF ~posts[id].exists THEN notFound("getPost", id)
    ELSE \E in \in (IF shouldAutoSync(posts[id], now)
                    THEN SyncInputs(posts[id], user, now) ELSE {NoSync}) :
           LET run == getPostRun(posts[id], user, in, now)
           IN /\ posts' = [posts EXCEPT ![id] = run.post]
              /\ user' = run.user
              /\ last' = LifeLast("getPost", id, in, run.resp, run.errors,
                                  run.calls)
              /\ UNCHANGED <<now, ticks, procs, poll>>

updatePost ==
  \E id \in PostIds :
    IF ~posts[id].exists THEN notFound("updatePost", id)
    ELSE \E body \in UpdateBodies(now) :
           LET run == updatePostRun(posts[id], body)
           IN /\ posts' = [posts EXCEPT ![id] = run.post]
              /\ last' = LifeLast("updatePost", id, body, run.resp, <<>>, <<>>)
              /\ UNCHANGED <<user, now, ticks, procs, poll>>

deletePost ==
  \E id \in PostIds :
    IF ~posts[id].exists THEN notFound("deletePost", id)
    ELSE \E a \in (IF deletesOnInstagram(posts[id], user)
                   THEN DeleteResponses ELSE {NoCall}) :
           LET run == deletePostRun(posts[id], user, a, now)
           IN /\ posts' = [posts EXCEPT ![id] =
                             IF run.removed
                             THEN Detailed(AbsentPost, Null, Null, NeverSynced)
                             ELSE @]
              /\ last' = LifeLast("deletePost", id, a, run.resp, <<>>, run.calls)
              /\ UNCHANGED <<user, now, ticks, procs, poll>>

syncInstagramAnalytics ==
  \E id \in PostIds :
    IF ~posts[id].exists THEN notFound("syncInstagramAnalytics", id)
    ELSE \E in \in SyncInputs(posts[id], user, now) :
           LET run == syncInstagramAnalyticsRun(posts[id], user, in, now)
           IN /\ posts' = [posts EXCEPT ![id] = run.post]
              /\ user' = run.user
              /\ last' = LifeLast("syncInstagramAnalytics", id, in, run.resp,
                                  run.errors, run.calls)
              /\ UNCHANGED <<now, ticks, procs, poll>>

autoSyncAllAnalytics ==
  \E authorized \in BOOLEAN :
    IF ~authorized
    THEN /\ last' = LifeLast("autoSyncAllAnalytics", 0, NoInputs,
                             Resp(401, FALSE, "Unauthorized"), <<>>, <<>>)
         /\ UNCHANGED <<posts, user, now, ticks, procs, poll>>
    ELSE \E ins \in [PostIds ->
                       UNION {SyncInputs(posts[id], user, now) : id \in PostIds}
                         \cup {NoSync}] :
           /\ \A id \in PostIds :
                ins[id] \in (IF needsSync(posts[id], now)
                             THEN SyncInputs(posts[id], user, now) ELSE {NoSync})
           /\ LET run == autoSyncAllAnalyticsRun(posts, user, ins, now)
              IN /\ posts' = run.posts
                 /\ user' = run.user
                 /\ last' = [LifeLast("autoSyncAllAnalytics", 0, NoInputs,
                                      Resp(200, TRUE,
                                           "Analytics batch sync complete"),
                                      <<>>, run.calls)
                               EXCEPT !.summary = run.summary, !.ins = ins]
                 /\ UNCHANGED <<now, ticks, procs, poll>>

LifeNext ==
  \/ getPost
  \/ updatePost
  \/ deletePost
  \/ publishPost
  \/ autoPublishScheduledPosts
  \/ syncInstagramAnalytics
  \/ autoSyncAllAnalytics
  \/ Tick

LifeSpec == LifeInit /\ [][LifeNext]_vars

(***************************************************************************)
(* Publish requests and sweeps in flight together.  A handler runs between *)
(* two awaits without interruption, and at an await another handler can    *)
(* run: publishPost is cut after its loads and after each platform block,  *)
(* the sweep after its selection and after each pass of its loop.  Each    *)
(* handler works on the documents it loaded; a save writes the paths the   *)
(* handler has changed since it loaded or last saved the document.         *)
(***************************************************************************)
ConcIds == {1, 2}

PlatformNames == {"snapchat", "instagram", "youtube"}

\* the posts of the owner: one due for the sweep, one draft for two platforms
ConcPosts ==
  {NewPost("url", "video", "snapchat", 0),
   NewPost("url", "video", "snapchat_youtube", NoDate)}

\* the owner: every account connected with a token good for a week, one
\* post or many left in the month
ConcUsers ==
  {[plan |-> "free", postsThisMonth |-> n,
    snapchatAccount |-> Connected(InitToken, SevenDays),
    instagramAccount |-> Connected(NoToken, SevenDays + InstagramDefaultExpiresIn),
    youtubeAccount |-> Connected(InitToken, SevenDays)] :
     n \in {0, FreePostsPerMonth - 1}}

\* post.save() of a document loaded as `loaded` and now `doc`
savePost(stored, loaded, doc) ==
  [f \in DOMAIN doc |-> IF doc[f] # loaded[f] THEN doc[f] ELSE stored[f]]

\* user.save() of a document loaded as `loaded` and now `doc`
saveUser(stored, loaded, doc) ==
  [f \in DOMAIN doc |->
     IF f \in {"snapchatAccount", "instagramAccount", "youtubeAccount"}
     THEN saveAccount(stored[f], loaded[f], doc[f])
     ELSE IF doc[f] # loaded[f] THEN doc[f] ELSE stored[f]]

\* the block of publishPost that follows the block `after`
nextBlock(platform, after) ==
  IF after = "start" /\ publishToSnapchat(platform) THEN "snapchat"
  ELSE IF after \in {"start", "snapchat"} /\ publishToInstagram(platform)
    THEN "instagram"
  ELSE IF after \in {"start", "snapchat", "instagram"} /\ publishToYouTube(platform)
    THEN "youtube"
  ELSE "final"

\* the answers the platform block x consumes
BlockInputs(x, u, t) ==
  CASE x = "snapchat" ->
         [refresh : IF snapchatNeedsRefresh(u, t)
                    THEN SnapchatRefreshResponses ELSE {NoRefresh},
          answer : SnapchatResponses]
    [] x = "instagram" ->
         [refresh : IF instagramNeedsRefresh(u, t)
                    THEN InstagramRefreshResponses ELSE {NoRefresh},
          answer : InstagramResponses]
    [] x = "youtube" ->
         [refresh : IF youtubeNeedsRefresh(u, t)
                    THEN YouTubeRefreshResponses ELSE {NoRefresh},
          answer : YouTubeResponses]

\* the platform block x of publishPost
platformBlock(x, ctx, in, t) ==
  CASE x = "snapchat" -> snapchatBlock(ctx, in.refresh, in.answer, t)
    [] x = "instagram" -> instagramBlock(ctx, in.refresh, in.answer, t)
    [] x = "youtube" -> youtubeBlock(ctx, in.refresh, in.answer, t)

Idle == [op |-> "none", pc |-> "idle"]

\* what the handlers have done so far: the successful platform calls per
\* post and platform, and the increments of postsThisMonth per post
NoSends == [id \in ConcIds |-> [x \in PlatformNames |-> 0]]

Sends(sent, succeeded) ==
  [id \in ConcIds |->
     [x \in PlatformNames |->
        sent[id][x]
        + Cardinality({k \in 1..Len(succeeded) : succeeded[k] = Attempt(id, x)})]]

ConcInit ==
  /\ posts \in [ConcIds -> ConcPosts]
  /\ user \in ConcUsers
  /\ now = 0
  /\ ticks = 0
  /\ last = [op |-> "none", preUser |-> user, sent |-> NoSends,
             counted |-> [id \in ConcIds |-> 0]]
  /\ procs = [p \in Procs |-> Idle]
  /\ poll = NoPoll

\* publishPost from Post.findOne to the last early return
beginPublish(p) ==
  \E id \in ConcIds :
    LET rejection == publishRejection(posts[id], user)
        c0 == StartCtx(id, posts[id], user)
    IN /\ procs[p].pc = "idle"
       /\ procs' = [procs EXCEPT ![p] =
                      [op |-> "publishPost",
                       pc |-> IF rejection # NoResp THEN "done"
                              ELSE nextBlock(posts[id].platform, "start"),
                       ids |-> {id},
                       ctx |-> IF rejection # NoResp
                               THEN [c0 EXCEPT !.resp = rejection] ELSE c0,
                       loadedPost |-> posts[id], loadedUser |-> user,
                       writes |-> 0]]
       /\ UNCHANGED <<posts, user, now, ticks, last, poll>>

\* one platform block of publishPost, with the save of its token step and,
\* when the block ends the request, the save of the failed post
publishBlock(p) ==
  LET pr == procs[p]
      x == pr.pc
      id == pr.ctx.id
  IN /\ pr.op = "publishPost"
     /\ x \in PlatformNames
     /\ \E in \in BlockInputs(x, pr.ctx.user, now) :
          LET c == platformBlock(x, pr.ctx, in, now)
              stopped == c.resp # NoResp
          IN /\ user' = saveUser(user, pr.loadedUser, c.user)
             /\ posts' = IF stopped
                         THEN [posts EXCEPT ![id] =
                                 savePost(@, pr.loadedPost, c.post)]
                         ELSE posts
             /\ procs' = [procs EXCEPT
                            ![p].ctx = c,
                            ![p].pc = IF stopped THEN "done"
                                      ELSE nextBlock(c.post.platform, x),
                            ![p].loadedUser = c.user,
                            ![p].loadedPost = IF stopped THEN c.post ELSE @,
                            ![p].writes = IF stopped THEN @ + 1 ELSE @]
             /\ last' = [last EXCEPT
                           !.op = "publishPost",
                           !.sent = Sends(@, SubSeq(c.succeeded,
                                                    Len(pr.ctx.succeeded) + 1,
                                                    Len(c.succeeded)))]
     /\ UNCHANGED <<now, ticks, poll>>

\* "Determine final status", post.save(), user.save() and the response
finishPublish(p) ==
  LET pr == procs[p]
      id == pr.ctx.id
      c == finalStatus(pr.ctx, now)
  IN /\ pr.op = "publishPost"
     /\ pr.pc = "final"
     /\ posts' = [posts EXCEPT ![id] = savePost(@, pr.loadedPost, c.post)]
     /\ user' = saveUser(user, pr.loadedUser, c.user)
     /\ procs' = [procs EXCEPT ![p].ctx = c, ![p].pc = "done",
                               ![p].loadedUser = c.user,
                               ![p].loadedPost = c.post,
                               ![p].writes = @ + 1]
     /\ last' = [last EXCEPT
                   !.op = "publishPost",
                   !.counted[id] =
                      @ + (c.user.postsThisMonth - pr.ctx.user.postsThisMonth)]
     /\ UNCHANGED <<now, ticks, poll>>

\* the sweep from its authorization to the selection of the due posts with
\* their populated owner
beginSweep(p) ==
  LET due == scheduledPosts(posts, now)
  IN /\ procs[p].pc = "idle"
     /\ procs' = [procs EXCEPT ![p] =
                    [op |-> "sweep",
                     pc |-> IF due = <<>> THEN "done" ELSE "loop",
                     ids |-> {due[k] : k \in 1..Len(due)},
                     due |-> due,
                     sw |-> [StartSweep(posts, user) EXCEPT
                               !.summary.total = Len(due)],
                     loadedPosts |-> posts, loadedUser |-> user,
                     writes |-> 0]]
     /\ UNCHANGED <<posts, user, now, ticks, last, poll>>

\* one pass of the loop of the sweep, with its saves
sweepStep(p) ==
  LET pr == procs[p]
      id == Head(pr.due)
  IN /\ pr.op = "sweep"
     /\ pr.pc = "loop"
     /\ \E in \in SweepInputs(pr.sw.posts[id], pr.sw.user, now) :
          LET next == sweepPost(pr.sw, id, in, now)
              saved == pr.sw.posts[id].user # Null
          IN /\ posts' = IF saved
                         THEN [posts EXCEPT ![id] =
                                 savePost(@, pr.loadedPosts[id], next.posts[id])]
                         ELSE posts
             /\ user' = saveUser(user, pr.loadedUser, next.user)
             /\ procs' = [procs EXCEPT
                            ![p].sw = next,
                            ![p].due = Tail(pr.due),
                            ![p].pc = IF Tail(pr.due) = <<>> THEN "done"
                                      ELSE "loop",
                            ![p].loadedUser = next.user,
                            ![p].writes = IF saved THEN @ + 1 ELSE @]
             /\ last' = [last EXCEPT
                           !.op = "autoPublishScheduledPosts",
                           !.sent = Sends(@, SubSeq(next.succeeded,
                                                    Len(pr.sw.succeeded) + 1,
                                                    Len(next.succeeded))),
                           !.counted[id] =
                              @ + (next.user.postsThisMonth
                                   - pr.sw.user.postsThisMonth)]
     /\ UNCHANGED <<now, ticks, poll>>

ConcNext ==
  \/ \E p \in Procs : beginPublish(p)
  \/ \E p \in Procs : publishBlock(p)
  \/ \E p \in Procs : finishPublish(p)
  \/ \E p \in Procs : beginSweep(p)
  \/ \E p \in Procs : sweepStep(p)

ConcSpec == ConcInit /\ [][ConcNext]_vars

(***************************************************************************)
(* Vocabulary of the properties                                            *)
(***************************************************************************)
\* the platforms a target selector implies
Targets(selector) ==
  CASE selector = "snapchat" -> {"snapchat"}
    [] selector = "instagram" -> {"instagram"}
    [] selector = "youtube" -> {"youtube"}
    [] selector = "snapchat_instagram" -> {"snapchat", "instagram"}
    [] selector = "snapchat_youtube" -> {"snapchat", "youtube"}
    [] selector = "instagram_youtube" -> {"instagram", "youtube"}
    [] selector = "all" -> {"snapchat", "instagram", "youtube"}

PlatformIdOf(post, x) ==
  CASE x = "snapchat" -> post.snapchatPostId
    [] x = "instagram" -> post.instagramPostId
    [] x = "youtube" -> post.youtubeVideoId

\* the last request was a publishPost on an existing post
Published == last.op = "publishPost" /\ last.resp.status # 404

Swept == last.op = "autoPublishScheduledPosts" /\ last.resp.status = 200

PrePost == last.prePosts[last.postId]

PostNow == posts[last.postId]

\* the call was rejected before any platform was tried
Rejected == Published /\ last.resp.status \in {400, 403}

\* the call passed the preconditions and went on to the platforms
Passed == Published /\ last.resp.status \in {200, 500}

AttemptsOf(id, x) ==
  Cardinality({k \in 1..Len(last.attempted) : last.attempted[k] = Attempt(id, x)})

SucceededOn(id, x) ==
  \E k \in 1..Len(last.succeeded) : last.succeeded[k] = Attempt(id, x)

FailedOn(id, x) == AttemptsOf(id, x) > 0 /\ ~SucceededOn(id, x)

UsageDelta == user.postsThisMonth - last.preUser.postsThisMonth

(***************************************************************************)
(* C1                                                                      *)
(***************************************************************************)
\* C1: in publishPost, for every multi-platform selector, when the attempt
\* of every targeted platform fails the post ends failed with the message
\* 'Failed to publish to all platforms' and postsThisMonth is not incremented.
C1_AllFailedIsFailed ==
  (/\ Passed
   /\ Cardinality(Targets(PrePost.platform)) > 1
   /\ \A x \in Targets(PrePost.platform) : FailedOn(last.postId, x))
  => /\ PostNow.status = "failed"
     /\ PostNow.error.message = "Failed to publish to all platforms"
     /\ UsageDelta = 0

(***************************************************************************)
(* C2                                                                      *)
(***************************************************************************)
\* what a platform answers to the last publishPost, taken alone: its token
\* step and its adapter call both succeed
Succeeds(x) ==
  CASE x = "snapchat" ->
         /\ (snapchatNeedsRefresh(last.preUser, last.at) => last.in.snapRefresh.ok)
         /\ last.in.snap.ok
    [] x = "instagram" ->
         /\ (instagramNeedsRefresh(last.preUser, last.at) => last.in.instaRefresh.ok)
         /\ last.in.insta.ok /\ last.in.insta.postId # Null
    [] x = "youtube" ->
         /\ (youtubeNeedsRefresh(last.preUser, last.at) => last.in.ytRefresh.ok)
         /\ last.in.yt.ok

\* C2: in publishPost, for every two-platform selector, when exactly one of
\* the two targeted platforms succeeds the post ends published, with
\* postsThisMonth increased by exactly 1, the id of the successful platform
\* recorded, and exactly one entry in the error list, naming the failed one.
C2_PartialSuccessPublished ==
  \A ok, ko \in {"snapchat", "instagram", "youtube"} :
    (/\ Passed
     /\ ok # ko
     /\ Targets(PrePost.platform) = {ok, ko}
     /\ Succeeds(ok)
     /\ ~Succeeds(ko))
    => /\ PostNow.status = "published"
       /\ UsageDelta = 1
       /\ PlatformIdOf(PostNow, ok) # Null
       /\ Len(last.errors) = 1
       /\ last.errors[1].platform = ko

(***************************************************************************)
(* C3                                                                      *)
(***************************************************************************)
\* C3: a publishPost call that passes the preconditions attempts every
\* platform the selector implies exactly once, whatever happened to the
\* other platforms.
C3_EveryTargetAttemptedOnce ==
  Passed =>
    \A x \in Targets(PrePost.platform) : AttemptsOf(last.postId, x) = 1

(***************************************************************************)
(* C4                                                                      *)
(***************************************************************************)
\* C4: for a post with a single target platform, the publish succeeds and
\* leaves the post published if and only if all preconditions pass and the
\* platform's token step and adapter call succeed; any failure of that
\* platform leaves the post failed with the platform's error message stored,
\* and postsThisMonth is not incremented.
C4_SingleTarget ==
  \A x \in {"snapchat", "instagram", "youtube"} :
    (Published /\ Targets(PrePost.platform) = {x})
    => /\ (last.resp.success /\ PostNow.status = "published")
            <=> (Passed /\ SucceededOn(last.postId, x))
       /\ (Passed /\ ~SucceededOn(last.postId, x))
            => /\ PostNow.status = "failed"
               /\ Len(last.errors) = 1
               /\ last.errors[1].platform = x
               /\ PostNow.error.message = last.errors[1].error
               /\ UsageDelta = 0
               /\ ~last.resp.success

\* a single-target publish whose token refresh failed, and one that went through
C4_Witness ==
  /\ Passed
  /\ PrePost.platform = "youtube"
  /\ PostNow.status = "failed"
  /\ PostNow.error.message = "Failed to refresh access token"

(***************************************************************************)
(* C5                                                                      *)
(***************************************************************************)
\* C5: each publish attempt, by publishPost or by the scheduled sweep, adds
\* exactly 1 to postsThisMonth when at least one targeted platform call
\* succeeded in it, and nothing when none succeeded.
C5_UsageCountsSuccessfulAttempts ==
  (Passed \/ Swept) =>
    UsageDelta =
      Cardinality({id \in PostIds :
                     \E x \in Targets(last.prePosts[id].platform) :
                       SucceededOn(id, x)})

(***************************************************************************)
(* C6                                                                      *)
(***************************************************************************)
\* C6: publishPost on a post that is already published returns the 'Post is
\* already published' rejection and changes nothing: status, publishedAt,
\* platform ids and postsThisMonth are unchanged, and no token or platform
\* call is made.
C6_AlreadyPublishedRejected ==
  (Published /\ PrePost.status = "published")
  => /\ last.resp = Resp(400, FALSE, "Post is already published")
     /\ posts = last.prePosts
     /\ user = last.preUser
     /\ last.calls = <<>>
     /\ last.attempted = <<>>

\* a second publishPost on a post that a first one published
C6_Witness ==
  /\ Published
  /\ PrePost.status = "published"
  /\ PrePost.publishedAt # NoDate

(***************************************************************************)
(* C7                                                                      *)
(***************************************************************************)
\* a precondition of publishPost fails on the post and the owner
NotConnectedFails(post, u) ==
  \E x \in Targets(post.platform) : ~AccountOf(u, x).isConnected

NotVideoFails(post) ==
  "youtube" \in Targets(post.platform) /\ post.mediaType # "video"

LimitFails(u) ==
  getPlanLimits(u).postsPerMonth # 0 - 1
  /\ u.postsThisMonth >= getPlanLimits(u).postsPerMonth

NoMediaFails(post) == post.mediaUrl = Null

\* C7: when publishPost rejects on a precondition (account not connected,
\* YouTube with non-video media, monthly limit reached, no media) the post
\* and the user are left unchanged (no failed status, no error recorded) and
\* no token refresh or platform call has been made.
C7_RejectionChangesNothing ==
  (/\ Published
   /\ PrePost.status # "published"
   /\ \/ NotConnectedFails(PrePost, last.preUser)
      \/ NotVideoFails(PrePost)
      \/ LimitFails(last.preUser)
      \/ NoMediaFails(PrePost))
  => /\ Rejected
     /\ posts = last.prePosts
     /\ user = last.preUser
     /\ last.calls = <<>>
     /\ last.attempted = <<>>

\* a rejected publish of a post that an earlier attempt left failed
C7_Witness ==
  /\ Rejected
  /\ PrePost.status = "failed"
  /\ LimitFails(last.preUser)
  /\ PostNow = PrePost

(***************************************************************************)
(* C8                                                                      *)
(***************************************************************************)
\* C8: in the scheduled sweep a due post that fails a precondition (account
\* not connected, monthly limit reached, no media) is not persisted failed:
\* its status and error fields are left unchanged.
C8_SweepRejectionNotPersisted ==
  Swept =>
    \A id \in PostIds :
      (/\ isDue(last.prePosts[id], now)
       /\ \/ NotConnectedFails(last.prePosts[id], last.preUser)
          \/ LimitFails(last.preUser)
          \/ NoMediaFails(last.prePosts[id]))
      => /\ posts[id].status = last.prePosts[id].status
         /\ posts[id].error = last.prePosts[id].error

(***************************************************************************)
(* C9                                                                      *)
(***************************************************************************)
\* the precondition a rejection message belongs to, 0 for no rejection
RejectionRank(resp) ==
  CASE resp.message = "Post is already published" -> 1
    [] resp.message \in {"Please connect your Snapchat account first",
                         "Please connect your Instagram account first",
                         "Please connect your YouTube account first"} -> 2
    [] resp.message = "YouTube only supports video content. Please upload a video." -> 3
    [] resp.message = "You have reached your monthly post limit. Please upgrade your plan." -> 4
    [] resp.message = "Media (image or video) is required for publishing" -> 5
    [] OTHER -> 0

\* the first precondition that fails, in the order 1..5, 0 when none does
FirstFailing(post, u) ==
  CASE post.status = "published" -> 1
    [] post.status # "published" /\ NotConnectedFails(post, u) -> 2
    [] post.status # "published" /\ ~NotConnectedFails(post, u)
       /\ NotVideoFails(post) -> 3
    [] post.status # "published" /\ ~NotConnectedFails(post, u)
       /\ ~NotVideoFails(post) /\ LimitFails(u) -> 4
    [] post.status # "published" /\ ~NotConnectedFails(post, u)
       /\ ~NotVideoFails(post) /\ ~LimitFails(u) /\ NoMediaFails(post) -> 5
    [] OTHER -> 0

\* C9: publishPost checks (1) not already published, (2) every targeted
\* account connected, (3) video media for YouTube, (4) monthly usage under the
\* ceiling unless the ceiling is -1, (5) media present, in this order: the
\* rejection returned is that of the first failing precondition.
C9_RejectionOrder ==
  Published =>
    /\ RejectionRank(last.resp) = FirstFailing(PrePost, last.preUser)
    /\ Rejected <=> FirstFailing(PrePost, last.preUser) # 0

\* a rejection for the media type although the limit is reached and there is
\* no media, and the unlimited plan going past the free ceiling
C9_Witness ==
  /\ Rejected
  /\ NotVideoFails(PrePost) /\ LimitFails(last.preUser) /\ NoMediaFails(PrePost)
  /\ RejectionRank(last.resp) = 3

(***************************************************************************)
(* C10                                                                     *)
(***************************************************************************)
\* C10: no platform publish call is issued with an access token whose
\* recorded expiresAt is at or before the time of the call.
C10_NoCallWithExpiredToken ==
  \A k \in 1..Len(last.calls) :
    last.calls[k].kind = "publish" => last.calls[k].expiresAt > last.calls[k].at

(***************************************************************************)
(* C11                                                                     *)
(***************************************************************************)
\* the last token step called the refresh endpoint
RefreshCalled ==
  \E k \in 1..Len(last.calls) : last.calls[k].kind = "refresh"

\* C11: the Instagram ensureValidToken on a connected account refreshes and
\* persists the new token and expiry before returning whenever the stored
\* expiresAt is less than seven days after now (an expiry one second ahead
\* included), and otherwise returns the stored credential unchanged without
\* calling the refresh endpoint.
C11_InstagramProactiveRefresh ==
  (/\ last.op = "ensureValidInstagramToken"
   /\ last.preUser.instagramAccount.isConnected)
  => IF last.preUser.instagramAccount.expiresAt < last.at + SevenDays
     THEN /\ Len(last.calls) = 1
          /\ RefreshCalled
          /\ last.calls[1].token = last.preUser.instagramAccount.accessToken
          /\ ~last.threw <=> last.in.ok
          /\ ~last.threw =>
                /\ user.instagramAccount.accessToken = last.at
                /\ user.instagramAccount.expiresAt >= last.at + SevenDays
                /\ user.instagramAccount.isConnected
     ELSE /\ last.calls = <<>>
          /\ ~last.threw
          /\ user = last.preUser

\* a token with one second left is refreshed and the new expiry persisted
C11_Witness ==
  /\ last.op = "ensureValidInstagramToken"
  /\ last.preUser.instagramAccount.isConnected
  /\ last.preUser.instagramAccount.expiresAt = last.at + 1
  /\ ~last.threw
  /\ user.instagramAccount.expiresAt = last.at + InstagramDefaultExpiresIn

(***************************************************************************)
(* C12                                                                     *)
(***************************************************************************)
RefreshErrors ==
  {"Failed to refresh Snapchat token. Please reconnect your account.",
   "Failed to refresh token",
   "Failed to refresh access token"}

\* C12: when the refresh call of a token step fails (Snapchat
\* ensureValidToken, Instagram ensureValidToken, the YouTube inline refresh
\* of publishPost, the YouTube getStatus), the step fails with a refresh
\* error and the account is left as it was: isConnected, access token,
\* refresh token and expiry unchanged.
C12_RefreshFailureLeavesAccount ==
  (/\ last.op \in {"ensureValidSnapchatToken", "ensureValidInstagramToken",
                   "refreshYouTubeInline", "getStatus"}
   /\ RefreshCalled
   /\ ~last.in.ok)
  => /\ last.threw
     /\ last.message \in RefreshErrors
     /\ user = last.preUser

(***************************************************************************)
(* C13                                                                     *)
(***************************************************************************)
\* the platform a token step works on
PlatformOfStep(op) ==
  CASE op = "ensureValidSnapchatToken" -> "snapchat"
    [] op = "ensureValidInstagramToken" -> "instagram"
    [] op \in {"refreshYouTubeInline", "getStatus"} -> "youtube"

\* C13: after a successful refresh on the Snapchat or the YouTube path the
\* new access token and the new expiry are persisted, and the stored refresh
\* token is replaced only by a rotated refresh token of the response: when
\* the response carries none, the stored refresh token is kept.
C13_RefreshPersistsRotation ==
  (/\ last.op \in {"ensureValidSnapchatToken", "refreshYouTubeInline", "getStatus"}
   /\ RefreshCalled
   /\ last.in.ok)
  => LET pre == AccountOf(last.preUser, PlatformOfStep(last.op))
         cur == AccountOf(user, PlatformOfStep(last.op))
     IN /\ ~last.threw
        /\ cur.accessToken = last.at
        /\ cur.expiresAt > last.at
        /\ cur.refreshToken = IF last.in.rotated THEN last.at
                               ELSE pre.refreshToken

(***************************************************************************)
(* C14                                                                     *)
(***************************************************************************)
Tuple(account) ==
  <<account.accessToken, account.refreshToken, account.expiresAt>>

\* C14: when two publish operations of one user refresh the token of the
\* same platform concurrently, the stored (access token, refresh token,
\* expiry) is in every state the tuple one single operation wrote, or the
\* tuple of before the refreshes: never the access token of one refresh with
\* the expiry or the refresh token of another.
C14_StoredTupleFromOneRefresh ==
  (\A p \in DOMAIN procs : procs[p].pc \in {"start", "loaded", "failed", "valid", "saved"})
  => \A x \in {"snapchat", "instagram", "youtube"} :
       \/ Tuple(AccountOf(user, x)) = Tuple(AccountOf(RaceUser, x))
       \/ \E p \in DOMAIN procs :
            /\ procs[p].pc = "saved"
            /\ procs[p].platform = x
            /\ Tuple(AccountOf(user, x)) = Tuple(AccountOf(procs[p].doc, x))

(***************************************************************************)
(* C15                                                                     *)
(***************************************************************************)
\* C15: whatever statuses the platform returns, uploadAndPublish makes at
\* most 20 status checks and then ends, by returning from the publish or by
\* throwing: it never waits for ever.
C15_PollTerminates ==
  /\ [](poll.attempts <= maxAttempts)
  /\ <>(poll.pc = "done" /\ poll.outcome \in {"returned", "threw"})

\* a video that is FINISHED at the twentieth check, and published
C15_Witness ==
  /\ poll.pc = "done"
  /\ poll.attempts = maxAttempts
  /\ poll.outcome = "returned"
  /\ poll.postId # Null

(***************************************************************************)
(* C16                                                                     *)
(***************************************************************************)
\* C16: for a video the publish call is made only after a status check has
\* returned FINISHED; when the loop stops on ERROR the upload fails with
\* 'Video processing failed', when it stops on any other status (still
\* IN_PROGRESS after the budget, or an unknown status) it fails with 'Video
\* processing timeout'; for an image the publish call is made without any
\* status check.
C16_PublishOnlyAfterFinished ==
  /\ (poll.published /\ poll.mediaType = "VIDEO")
       => poll.statusCode = "FINISHED" /\ poll.attempts >= 1
  /\ (poll.published /\ poll.mediaType = "IMAGE") => poll.attempts = 0
  /\ (poll.pc \in {"publishing", "done"} /\ poll.loopExited
        /\ poll.statusCode = "ERROR")
       => /\ poll.outcome = "threw"
          /\ poll.message = "Video processing failed"
          /\ ~poll.published
  /\ (poll.pc \in {"publishing", "done"} /\ poll.loopExited
        /\ poll.statusCode \notin {"ERROR", "FINISHED"})
       => /\ poll.outcome = "threw"
          /\ poll.message = "Video processing timeout"
          /\ ~poll.published
  /\ poll.mediaType = "IMAGE"
       => poll.pc # "polling" /\ ~poll.loopExited /\ poll.attempts = 0

\* a video still IN_PROGRESS when the budget is spent
C16_Witness ==
  /\ poll.pc = "done"
  /\ poll.mediaType = "VIDEO"
  /\ poll.statusCode = "IN_PROGRESS"
  /\ poll.attempts = maxAttempts
  /\ poll.message = "Video processing timeout"

(***************************************************************************)
(* C17                                                                     *)
(***************************************************************************)
\* the Instagram calls of the attempt on the post id all succeeded, and the
\* answer carries no post id
InstagramAnsweredNoId(id, in) ==
  /\ AttemptsOf(id, "instagram") = 1
  /\ instagramNeedsRefresh(last.preUser, last.at) => in.instaRefresh.ok
  /\ in.insta.ok
  /\ in.insta.postId = Null

\* C17: an Instagram publish whose calls all succeed but which yields no
\* post id is a failure of the Instagram attempt, in publishPost and in the
\* scheduled sweep: instagramPostId is not set, the error results list
\* Instagram ('No post ID returned from Instagram'), and the post does not
\* count as succeeded on Instagram (an Instagram-only post ends failed and
\* the usage is not incremented).
C17_NoPostIdIsFailure ==
  /\ (Passed /\ InstagramAnsweredNoId(last.postId, last.in))
       => /\ PostNow.instagramPostId = Null
          /\ \E k \in 1..Len(last.errors) :
               /\ last.errors[k].platform = "instagram"
               /\ last.errors[k].error = "No post ID returned from Instagram"
          /\ ~SucceededOn(last.postId, "instagram")
          /\ Targets(PrePost.platform) = {"instagram"}
               => PostNow.status = "failed" /\ UsageDelta = 0
  /\ Swept =>
       \A id \in DOMAIN last.ins :
         InstagramAnsweredNoId(id, last.ins[id])
         => /\ posts[id].instagramPostId = Null
            /\ \E k \in 1..Len(last.summary.errors) :
                 /\ last.summary.errors[k].postId = id
                 /\ last.summary.errors[k].error = "No post ID returned from Instagram"
            /\ ~SucceededOn(id, "instagram")
            /\ posts[id].status = "failed"
            /\ UsageDelta = 0

\* Snapchat took the post and Instagram answered without post id
C17_Witness ==
  /\ Passed
  /\ PrePost.platform = "snapchat_instagram"
  /\ InstagramAnsweredNoId(last.postId, last.in)
  /\ SucceededOn(last.postId, "snapchat")
  /\ PostNow.status = "published"
  /\ PostNow.instagramPostId = Null

(***************************************************************************)
(* C18                                                                     *)
(***************************************************************************)
\* the answers `pin` of a publishPost call are those the sweep got, where
\* the sweep asked
SameAnswers(pin, sin) ==
  /\ sin.snapRefresh = NoRefresh \/ pin.snapRefresh = sin.snapRefresh
  /\ sin.snap = NoCall \/ pin.snap = sin.snap
  /\ sin.instaRefresh = NoRefresh \/ pin.instaRefresh = sin.instaRefresh
  /\ sin.insta = NoCall \/ pin.insta = sin.insta

PlatformsTried(attempted, id) ==
  {attempted[k].platform : k \in {j \in 1..Len(attempted) : attempted[j].post = id}}

\* C18: for every due scheduled post, whatever its selector, the sweep does
\* what a direct publishPost call would do with the same platform answers:
\* it tries the same platforms, those the selector implies, and leaves the
\* post with the same status and platform ids and the owner with the same
\* usage.
C18_SweepPublishesLikePublishPost ==
  Swept =>
    \A id \in DOMAIN last.ins :
      isDue(last.prePosts[id], last.at) =>
        \A pin \in PublishInputs(last.prePosts[id], last.preUser, last.at) :
          SameAnswers(pin, last.ins[id]) =>
            LET run == publishPostRun(id, last.prePosts[id], last.preUser,
                                      pin, last.at)
            IN /\ PlatformsTried(last.attempted, id)
                    = PlatformsTried(run.attempted, id)
               /\ posts[id].status = run.post.status
               /\ posts[id].snapchatPostId = run.post.snapchatPostId
               /\ posts[id].instagramPostId = run.post.instagramPostId
               /\ posts[id].youtubeVideoId = run.post.youtubeVideoId
               /\ user.postsThisMonth = run.user.postsThisMonth

(***************************************************************************)
(* C19                                                                     *)
(***************************************************************************)
\* the posts the last sweep selected
DueIds == {id \in DOMAIN last.prePosts : isDue(last.prePosts[id], last.at)}

Ownerless(id) == last.prePosts[id].user = Null

ListedInErrors(id) ==
  \E k \in 1..Len(last.summary.errors) : last.summary.errors[k].postId = id

\* C19: in a sweep every due post without owner is counted in failed and
\* listed in errors with its postId, the other due posts are still
\* processed, and the sweep answers with its summary (three due posts, the
\* second without owner and the others published: total 3, published 2,
\* failed 1, errors holding the second).
C19_OwnerlessPostReported ==
  Swept =>
    /\ last.summary.total = Cardinality(DueIds)
    /\ last.summary.failed >= Cardinality({id \in DueIds : Ownerless(id)})
    /\ \A id \in DueIds :
         IF Ownerless(id) THEN ListedInErrors(id)
         ELSE posts[id].status \in {"published", "failed"}
    /\ (/\ DueIds = {1, 2, 3}
        /\ Ownerless(2)
        /\ posts[1].status = "published"
        /\ posts[3].status = "published")
       => /\ last.summary.total = 3
          /\ last.summary.published = 2
          /\ last.summary.failed = 1
          /\ ListedInErrors(2)

C21_NoPostProcessedTwice ==
  (\E p \in Procs : procs[p].op = "sweep")
  => \A id \in ConcIds :
       /\ last.counted[id] <= 1
       /\ \A x \in PlatformNames : last.sent[id][x] <= 1

(***************************************************************************)
(* C22                                                                     *)
(***************************************************************************)
\* a post the sweep started at t must not select: it is not scheduled, or
\* it is scheduled for later
NotDue(post, t) ==
  post.exists /\ (post.status # "scheduled" \/ post.scheduledFor > t)

\* C22: the scheduled sweep leaves every post that is not due (draft,
\* published, failed, or scheduled for later than the sweep's start) entirely
\* unchanged and makes no platform call for it.
C22_SweepTouchesOnlyDuePosts ==
  Swept =>
    \A id \in DOMAIN posts :
      NotDue(last.prePosts[id], last.at)
      => /\ posts[id] = last.prePosts[id]
         /\ \A x \in {"snapchat", "instagram", "youtube"} : AttemptsOf(id, x) = 0

\* a sweep that published a due post and left alone a post scheduled for
\* later
C22_Witness ==
  /\ Swept
  /\ last.summary.published > 0
  /\ \E id \in DOMAIN posts :
       /\ last.prePosts[id].status = "scheduled"
       /\ last.prePosts[id].scheduledFor > last.at
       /\ posts[id] = last.prePosts[id]

(***************************************************************************)
(* C23                                                                     *)
(***************************************************************************)
\* the analytics of the post were synced no longer than window ago
Fresh(post, t, window) ==
  /\ post.exists
  /\ post.analytics.lastSynced # NoDate
  /\ t - post.analytics.lastSynced <= window

\* C23: when analytics.lastSynced lies within the freshness window (30
\* minutes for getPost, 60 minutes for the batch sync), getPost and the batch
\* sync fetch nothing from Instagram and leave lastSynced and the Instagram
\* counters unchanged; the analytics only change in a manual sync, or in a
\* getPost or a batch sync outside the window.
C23_FreshAnalyticsNotRefetched ==
  /\ (last.op = "getPost" /\ last.resp.status = 200
      /\ Fresh(PrePost, last.at, ThirtyMinutes))
     => /\ last.calls = <<>>
        /\ PostNow.analytics = PrePost.analytics
  /\ (last.op = "autoSyncAllAnalytics" /\ last.resp.status = 200)
     => /\ \A id \in PostIds :
             Fresh(last.prePosts[id], last.at, OneHour)
             => posts[id].analytics = last.prePosts[id].analytics
        /\ (\A id \in PostIds : Fresh(last.prePosts[id], last.at, OneHour))
           => last.calls = <<>>
  /\ \A id \in PostIds :
       (/\ last.op # "none"
        /\ posts[id].exists
        /\ last.prePosts[id].exists
        /\ posts[id].analytics # last.prePosts[id].analytics)
       => \/ last.op = "syncInstagramAnalytics"
          \/ last.op = "getPost"
             /\ ~Fresh(last.prePosts[id], last.at, ThirtyMinutes)
          \/ last.op = "autoSyncAllAnalytics"
             /\ ~Fresh(last.prePosts[id], last.at, OneHour)

\* a getPost on a post whose counters an earlier sync has fetched, thirty
\* minutes or less ago
C23_Witness ==
  /\ last.op = "getPost"
  /\ last.resp.status = 200
  /\ PrePost.status = "published"
  /\ PrePost.instagramPostId # Null
  /\ last.preUser.instagramAccount.isConnected
  /\ PrePost.analytics.instagram.likes = 5
  /\ Fresh(PrePost, last.at, ThirtyMinutes)
  /\ PostNow.analytics = PrePost.analytics

(***************************************************************************)
(* C24                                                                     *)
(***************************************************************************)
\* C24: syncPostAnalytics fails without fetching or changing anything when
\* the post has no instagramPostId ('Post not published to Instagram') or
\* the owner's Instagram account is not connected ('Instagram account not
\* connected'): analytics and lastSynced are unchanged, and neither a token
\* refresh nor a platform call is made.
C24_SyncPreconditions ==
  /\ (last.op = "syncInstagramAnalytics" /\ last.resp.status # 404)
     => /\ PrePost.instagramPostId = Null
           => /\ last.resp.status = 500
              /\ last.errors = <<[platform |-> "instagram",
                                  error |-> "Post not published to Instagram"]>>
              /\ PostNow = PrePost
              /\ user = last.preUser
              /\ last.calls = <<>>
        /\ (PrePost.instagramPostId # Null
            /\ ~last.preUser.instagramAccount.isConnected)
           => /\ last.resp.status = 500
              /\ last.errors = <<[platform |-> "instagram",
                                  error |-> "Instagram account not connected"]>>
              /\ PostNow = PrePost
              /\ user = last.preUser
              /\ last.calls = <<>>
  /\ (last.op \in {"getPost", "autoSyncAllAnalytics"}
      /\ last.resp.status = 200
      /\ \A id \in PostIds :
           \/ last.prePosts[id].instagramPostId = Null
           \/ ~last.preUser.instagramAccount.isConnected)
     => /\ posts = last.prePosts
        /\ user = last.preUser
        /\ last.calls = <<>>

\* a manual sync of a post that was published to Snapchat only
C24_Witness ==
  /\ last.op = "syncInstagramAnalytics"
  /\ PrePost.status = "published"
  /\ PrePost.instagramPostId = Null
  /\ last.preUser.instagramAccount.isConnected
  /\ last.resp.status = 500

(***************************************************************************)
(* C25                                                                     *)
(***************************************************************************)
\* C25: once a post is published, no updatePost, publishPost, sweep or
\* analytics sync changes its title, content, mediaUrl or mediaType.
C25_PublishedContentImmutable ==
  [][\A id \in PostIds :
       (posts[id].exists /\ posts[id].status = "published" /\ posts'[id].exists)
       => /\ posts'[id].title = posts[id].title
          /\ posts'[id].content = posts[id].content
          /\ posts'[id].mediaUrl = posts[id].mediaUrl
          /\ posts'[id].mediaType = posts[id].mediaType]_vars

\* an update of the text of a post that publishPost has published
C25_Witness ==
  /\ last.op = "updatePost"
  /\ PrePost.status = "published"
  /\ PrePost.publishedAt = LifeStart
  /\ last.in.title = "title-2"
  /\ last.resp.status = 400
  /\ PostNow = PrePost

(***************************************************************************)
(* C26                                                                     *)
(***************************************************************************)
\* the platforms the handler p has tried so far
TriedBy(p) ==
  {procs[p].ctx.attempted[k].platform : k \in 1..Len(procs[p].ctx.attempted)}

\* C26: a publishPost call that passes the preconditions writes the post's
\* status to the store exactly once, and only when every targeted platform
\* has been attempted: no stored status of the call coexists with a target
\* it has not tried.
C26_StatusWrittenAfterAllAttempts ==
  \A p \in Procs :
    (procs[p].op = "publishPost" /\ procs[p].ctx.resp.status \notin {400, 403})
    => /\ procs[p].writes <= 1
       /\ procs[p].pc = "done" => procs[p].writes = 1
       /\ procs[p].writes = 1
          => Targets(procs[p].ctx.post.platform) \subseteq TriedBy(p)

(***************************************************************************)
(* C27                                                                     *)
(***************************************************************************)
\* C27: deletePost removes the post from the store and reports success
\* whether the deletion on Instagram succeeds, fails or is not attempted.
C27_DeleteIsBestEffort ==
  (last.op = "deletePost" /\ last.resp.status # 404)
  => /\ ~PostNow.exists
     /\ last.resp.status = 200
     /\ last.resp.success

\* a deletePost whose deletion on Instagram failed
C27_Witness ==
  /\ last.op = "deletePost"
  /\ Len(last.calls) = 1
  /\ last.calls[1].kind = "delete"
  /\ ~last.in.ok
  /\ ~PostNow.exists

(***************************************************************************)
(* C28                                                                     *)
(***************************************************************************)
\* C28: after any sequence of updatePost, publishPost and sweep operations,
\* every published post carries at least one platform identifier.
C28_PublishedHasPlatformId ==
  \A id \in PostIds :
    (posts[id].exists /\ posts[id].status = "published")
    => \E x \in {"snapchat", "instagram", "youtube"} :
         PlatformIdOf(posts[id], x) # Null

(***************************************************************************)
(* C29                                                                     *)
(***************************************************************************)
\* C29: a publishPost call that went on to the platforms reports success
\* true if and only if the post's resulting status is published, and a call
\* that leaves the post failed is reported with success false.
C29_ResponseAgreesWithStatus ==
  Passed =>
    /\ last.resp.success <=> PostNow.status = "published"
    /\ PostNow.status = "failed" => ~last.resp.success

(***************************************************************************)
(* C30                                                                     *)
(***************************************************************************)
\* every handler has answered, and no two handlers worked on the same post
DoneOnDifferentPosts ==
  /\ \A p \in Procs : procs[p].pc = "done"
  /\ \A p, q \in Procs : p # q => procs[p].ids \cap procs[q].ids = {}

\* C30: after concurrent publishPost requests and sweeps on different posts
\* of one user, postsThisMonth equals its initial value plus the number of
\* posts that became published, and it does not exceed the plan's
\* postsPerMonth.
C30_UsageCountsEveryPublishedPost ==
  DoneOnDifferentPosts
  => /\ user.postsThisMonth =
          last.preUser.postsThisMonth
          + Cardinality({id \in ConcIds : posts[id].status = "published"})
     /\ getPlanLimits(user).postsPerMonth # Unlimited
        => user.postsThisMonth <= getPlanLimits(user).postsPerMonth

====
